---- MODULE Spec2Model ----
(***************************************************************************)
(* A model of the queues of github.com/adrianbrad/queue.                   *)
(*                                                                         *)
(* Blocking (blocking.go): a FIFO slice guarded by one sync.RWMutex, with  *)
(* two sync.Cond condition variables, notEmptyCond and notFullCond, both   *)
(* built on that lock.  Circular (circular.go): a ring of slots with head, *)
(* tail and size.  Priority (priority.go): a binary heap ordered by the    *)
(* caller's lessFunc.  Linked (linked.go): a singly linked list of nodes   *)
(* with head, tail and size.  A behaviour drives one queue: Spec and       *)
(* SpecBlockedGetters the Blocking queue, SpecCircular the Circular one,   *)
(* SpecPriority the Priority one, SpecLinked the Linked one,               *)
(* SpecCallerSlice the Blocking queue together with the slice its caller   *)
(* built it on, and SpecQueues any one of the four.                        *)
(*                                                                         *)
(* Goroutines are the processes 1..MaxProcs.  A method that holds the      *)
(* write lock from entry to return is one action.  A method that can       *)
(* suspend in Cond.Wait is split where Wait releases the lock: the         *)
(* call up to the first Wait, and one action for each time the goroutine   *)
(* has been woken and has re-acquired the lock.  Iterator holds only the   *)
(* read lock while it writes, so it is split at its accesses to the queue. *)
(***************************************************************************)
EXTENDS Integers, Sequences, FiniteSets, TLC

\* Bounds of the model.
MaxProcs == 3
MaxElem == 2
MaxInit == 2
MaxCap == 2
MaxOps == 4
MaxIterators == 2
MaxPriorityElem == 3
MaxPriorityInit == 3
MaxPriorityOps == 3
MaxLinkedOps == 6
MaxOptions == 2
MaxWaiters == 3

Procs == 1..MaxProcs
Elems == 1..MaxElem

\* The zero value of the element type (what `var v T` holds).
ZeroVal == 0

OpNames == {"Offer", "OfferWait", "Get", "GetWait", "PeekWait", "Clear", "Reset", "Iterator",
            "Peek", "Contains"}

VARIABLES
    elems,          \* bq.elems
    initialElems,   \* bq.initialElems
    capacity,       \* bq.capacity: <<>> is nil, <<c>> points to c
    notEmptyCond,   \* goroutines suspended in bq.notEmptyCond.Wait()
    notFullCond,    \* goroutines suspended in bq.notFullCond.Wait()
    readers,        \* goroutines holding bq.lock.RLock()
    pc,             \* where each goroutine is
    local,          \* per goroutine: elem (argument or value read), hdr (bq.elems as
                    \* loaded), chcap (the capacity of its iteratorCh), live
                    \* (history: bq.elems when its Iterator was called)
    iteratorCh,     \* per goroutine: what its Iterator has sent to its channel
    panicked,       \* "" or the method in which a run-time panic ended the program
    calls,          \* history: how many calls of each method have begun
    last,           \* history: the last thing a caller observed (a return, or a suspension)
    offered,        \* history: the elements inserted by Offer/OfferWait, in order
    got,            \* history: the elements returned by Get/GetWait, in order
    circular,       \* the Circular queue under test (circular.go), if one was built
    priority,       \* the Priority queue under test (priority.go), if one was built
    backing,        \* the caller's slice and the slices of a Blocking queue built on it
    linked          \* the Linked queue under test (linked.go), if one was built

vars == <<elems, initialElems, capacity, notEmptyCond, notFullCond, readers, pc, local,
          iteratorCh, panicked, calls, last, offered, got, circular, priority, backing, linked>>

\* The queues of the other variants: a behaviour drives one queue, the others
\* are never built.
variants == <<circular, priority, backing, linked>>
NotBuilt == [built |-> FALSE]

----------------------------------------------------------------------------
\* Sequences over S of length at most n.
SeqsUpTo(S, n) == UNION {[1..k -> S] : k \in 0..n}

\* The first n elements of s (s[:n] for n <= len(s)).
Prefix(s, n) == SubSeq(s, 1, n)

\* How often e occurs in s.
Count(s, e) == Cardinality({i \in DOMAIN s : s[i] = e})

\* s is contained in t as a multiset / s and t are equal as multisets.
SubBag(s, t) == \A e \in Elems : Count(s, e) <= Count(t, e)
SameBag(s, t) == \A e \in Elems : Count(s, e) = Count(t, e)

TotalCalls == calls["Offer"] + calls["OfferWait"] + calls["Get"] + calls["GetWait"]
              + calls["PeekWait"] + calls["Clear"] + calls["Reset"] + calls["Iterator"]
    + calls["Peek"] + calls["Contains"]

\* The methods that have been called so far.
Used == {o \in OpNames : calls[o] > 0}

----------------------------------------------------------------------------
\* Helpers of blocking.go.

isEmpty(es) == Len(es) = 0

\* isFull with the comparison off by one.
isFullOffByOne(es, cap) == IF cap = <<>> THEN FALSE ELSE Len(es) > cap[1]

isFull(es, cap) == IF cap = <<>> THEN FALSE ELSE Len(es) >= cap[1]

Size == Len(elems)

\* NewBlocking keeping all the elements it is given.
NewBlockingKeepsAll(in, cap) == [initialElems |-> in, elems |-> in, capacity |-> cap]

\* NewBlocking(elems, WithCapacity(cap)...): the fields of the new queue.
NewBlocking(in, cap) ==
    [initialElems |-> in,
     elems        |-> IF cap # <<>> /\ Len(in) > cap[1] THEN Prefix(in, cap[1]) ELSE in,
     capacity     |-> cap]

\* A Signal that wakes nobody.
SignalLost(cond) == {cond}

\* Cond.Signal: one of the suspended goroutines, if any, is woken.
Signal(cond) == IF cond = {} THEN {cond} ELSE {cond \ {w} : w \in cond}

\* A Broadcast that wakes one goroutine only, as Signal does.
BroadcastOne(cond) == IF cond = {} THEN {} ELSE cond \ {CHOOSE w \in cond : TRUE}

\* Cond.Broadcast: all of them are.
Broadcast(cond) == {}

\* Clear waking one goroutine only.
ClearNotFullSignal(nf) == IF nf = {} THEN {nf} ELSE {nf \ {w} : w \in nf}

\* `defer bq.notFullCond.Broadcast()` in Clear, blocking.go 147.
ClearNotFull(nf) == {Broadcast(nf)}

\* The conditions tested once, by `if`, as before v1.2.1: a woken goroutine
\* goes on without looking again.
OfferWaitIf(es, cap, woken) == ~woken /\ isFull(es, cap)
GetWaitIf(es, woken) == ~woken /\ isEmpty(es)

\* The loop conditions around Wait: `for bq.isFull()`, `for bq.isEmpty()`.
\* woken tells whether the goroutine has returned from Wait before.
OfferWaitLoop(es, cap, woken) == isFull(es, cap)

GetWaitLoop(es, woken) == isEmpty(es)

\* PeekWait testing once: a woken goroutine reads the head without looking again.
PeekWaitIf(es, woken) == ~woken /\ isEmpty(es)

PeekWaitLoop(es, woken) == isEmpty(es)

----------------------------------------------------------------------------
\* What a caller observes: the method, its argument, whether it returned or was
\* suspended ("block" at its first Wait, "rewait" at a later one), whether it
\* had been suspended in this call, and the results.
Event(op, arg, kind, woken, ret, err, removed) ==
    [op |-> op, arg |-> arg, kind |-> kind, woken |-> woken, ret |-> ret, err |-> err,
     removed |-> removed]

Idle(p) == pc[p] = "idle"

\* p is suspended in a Wait / p has been woken and has yet to re-acquire the lock.
Blocked(p) == p \in notEmptyCond \cup notFullCond
Woken(p) == pc[p] \in {"OfferWait", "GetWait", "PeekWait"} /\ ~Blocked(p)

\* bq.lock.Lock() succeeds: no goroutine holds the read lock (no action ends
\* with the write lock held).
CanLock == readers = {}

\* A new call is made by the first idle goroutine: goroutines have no identity
\* in the code, so which idle one makes the call changes nothing.
CanCallWithin(p, n) ==
    /\ panicked = "" /\ Idle(p) /\ TotalCalls < n
    /\ \A q \in Procs : Idle(q) => p <= q

CanCall(p) == CanCallWithin(p, MaxOps)

Called(op) == calls' = [calls EXCEPT ![op] = @ + 1]

Init ==
    /\ \E in \in SeqsUpTo(Elems, MaxInit), cap \in {<<>>} \cup {<<c>> : c \in 0..MaxCap} :
         /\ elems = NewBlocking(in, cap).elems
         /\ initialElems = NewBlocking(in, cap).initialElems
         /\ capacity = NewBlocking(in, cap).capacity
    /\ notEmptyCond = {}
    /\ notFullCond = {}
    /\ readers = {}
    /\ pc = [p \in Procs |-> "idle"]
    /\ local = [p \in Procs |-> [elem |-> ZeroVal, hdr |-> <<>>, chcap |-> 0, live |-> <<>>]]
    /\ iteratorCh = [p \in Procs |-> <<>>]
    /\ panicked = ""
    /\ calls = [o \in OpNames |-> 0]
    /\ last = Event("NewBlocking", ZeroVal, "return", FALSE, ZeroVal, "nil", <<>>)
    /\ offered = <<>>
    /\ got = <<>>
    /\ circular = NotBuilt
    /\ priority = NotBuilt
    /\ backing = NotBuilt
    /\ linked = NotBuilt

----------------------------------------------------------------------------
\* Insertion.

\* Offer(elem), blocking.go 85-98.
Offer(p, e) ==
    /\ UNCHANGED variants
    /\ CanCall(p) /\ CanLock
    /\ Called("Offer")
    /\ IF isFull(elems, capacity)
       THEN /\ last' = Event("Offer", e, "return", FALSE, ZeroVal, "ErrQueueIsFull", <<>>)
            /\ UNCHANGED <<elems, notEmptyCond, offered>>
       ELSE /\ elems' = Append(elems, e)
            /\ notEmptyCond' \in Signal(notEmptyCond)
            /\ offered' = Append(offered, e)
            /\ last' = Event("Offer", e, "return", FALSE, ZeroVal, "nil", <<>>)
    /\ UNCHANGED <<initialElems, capacity, notFullCond, readers, pc, local, iteratorCh,
                   panicked, got>>

\* The statements of OfferWait after its loop, blocking.go 78-80.
OfferWaitAppend(p, e, woken) ==
    /\ elems' = Append(elems, e)
    /\ notEmptyCond' \in Signal(notEmptyCond)
    /\ offered' = Append(offered, e)
    /\ last' = Event("OfferWait", e, "return", woken, ZeroVal, "nil", <<>>)
    /\ pc' = [pc EXCEPT ![p] = "idle"]
    /\ local' = [local EXCEPT ![p].elem = ZeroVal]
    /\ UNCHANGED notFullCond

\* bq.notFullCond.Wait() in OfferWait, blocking.go 75: the lock is released and
\* the goroutine is suspended.
OfferWaitWait(p, e, kind) ==
    /\ notFullCond' = notFullCond \cup {p}
    /\ pc' = [pc EXCEPT ![p] = "OfferWait"]
    /\ local' = [local EXCEPT ![p].elem = e]
    /\ last' = Event("OfferWait", e, kind, kind = "rewait", ZeroVal, "nil", <<>>)
    /\ UNCHANGED <<elems, notEmptyCond, offered>>

\* OfferWait(elem), blocking.go 70-81, up to its return or its first Wait.
OfferWait(p, e) ==
    /\ UNCHANGED variants
    /\ CanCall(p) /\ CanLock
    /\ Called("OfferWait")
    /\ IF OfferWaitLoop(elems, capacity, FALSE)
       THEN OfferWaitWait(p, e, "block")
       ELSE OfferWaitAppend(p, e, FALSE)
    /\ UNCHANGED <<initialElems, capacity, readers, iteratorCh, panicked, got>>

\* OfferWait after a wake-up: Wait re-acquires the lock and the loop condition
\* is evaluated again.
OfferWaitResume(p) ==
    /\ UNCHANGED variants
    /\ panicked = "" /\ pc[p] = "OfferWait" /\ Woken(p) /\ CanLock
    /\ IF OfferWaitLoop(elems, capacity, TRUE)
       THEN OfferWaitWait(p, local[p].elem, "rewait")
       ELSE OfferWaitAppend(p, local[p].elem, TRUE)
    /\ UNCHANGED <<initialElems, capacity, readers, iteratorCh, panicked, calls, got>>

\* Reset(), blocking.go 101-110, as one of at most n calls.
ResetWithin(p, n) ==
    /\ UNCHANGED variants
    /\ CanCallWithin(p, n) /\ CanLock
    /\ Called("Reset")
    /\ elems' = initialElems
    /\ notEmptyCond' = Broadcast(notEmptyCond)
    /\ last' = Event("Reset", ZeroVal, "return", FALSE, ZeroVal, "nil", <<>>)
    /\ UNCHANGED <<initialElems, capacity, notFullCond, readers, pc, local, iteratorCh,
                   panicked, offered, got>>

Reset(p) == ResetWithin(p, MaxOps)

----------------------------------------------------------------------------
\* Removal.

\* get() taking the element at the tail.
getLast(es, nf) ==
    IF Len(es) = 0
    THEN {[err |-> "ErrNoElementsAvailable", elem |-> ZeroVal, elems |-> es, notFull |-> nf]}
    ELSE {[err |-> "nil", elem |-> es[Len(es)], elems |-> SubSeq(es, 1, Len(es) - 1),
           notFull |-> w] : w \in Signal(nf)}

\* get(), blocking.go 265-276, run with the write lock held: the error, the
\* element, what is left, and the goroutines still suspended on notFullCond.
get(es, nf) ==
    IF isEmpty(es)
    THEN {[err |-> "ErrNoElementsAvailable", elem |-> ZeroVal, elems |-> es, notFull |-> nf]}
    ELSE {[err |-> "nil", elem |-> Head(es), elems |-> Tail(es), notFull |-> w] :
             w \in Signal(nf)}

\* Get(), blocking.go 135-140.
Get(p) ==
    /\ UNCHANGED variants
    /\ CanCall(p) /\ CanLock
    /\ Called("Get")
    /\ \E r \in get(elems, notFullCond) :
         /\ elems' = r.elems
         /\ notFullCond' = r.notFull
         /\ got' = IF r.err = "nil" THEN Append(got, r.elem) ELSE got
         /\ last' = Event("Get", ZeroVal, "return", FALSE, r.elem, r.err, <<>>)
    /\ UNCHANGED <<initialElems, capacity, notEmptyCond, readers, pc, local, iteratorCh,
                   panicked, offered>>

\* GetWait returning the head without removing it.
GetWaitTakeKeep(p, woken) ==
    IF Len(elems) = 0
    THEN /\ panicked' = "GetWait"
         /\ UNCHANGED <<elems, notFullCond, notEmptyCond, got, last, pc>>
    ELSE /\ notFullCond' \in Signal(notFullCond)
         /\ got' = Append(got, Head(elems))
         /\ last' = Event("GetWait", ZeroVal, "return", woken, Head(elems), "nil", <<>>)
         /\ pc' = [pc EXCEPT ![p] = "idle"]
         /\ UNCHANGED <<elems, notEmptyCond, panicked>>

\* The statements of GetWait after its loop, blocking.go 125-130.  Indexing
\* an empty slice is a run-time panic.
GetWaitTake(p, woken) ==
    IF Len(elems) = 0
    THEN /\ panicked' = "GetWait"
         /\ UNCHANGED <<elems, notFullCond, notEmptyCond, got, last, pc>>
    ELSE /\ elems' = Tail(elems)
         /\ notFullCond' \in Signal(notFullCond)
         /\ got' = Append(got, Head(elems))
         /\ last' = Event("GetWait", ZeroVal, "return", woken, Head(elems), "nil", <<>>)
         /\ pc' = [pc EXCEPT ![p] = "idle"]
         /\ UNCHANGED <<notEmptyCond, panicked>>

\* bq.notEmptyCond.Wait() in GetWait and PeekWait, blocking.go 122 and 204.
NotEmptyWait(p, op, kind) ==
    /\ notEmptyCond' = notEmptyCond \cup {p}
    /\ pc' = [pc EXCEPT ![p] = op]
    /\ last' = Event(op, ZeroVal, kind, kind = "rewait", ZeroVal, "nil", <<>>)
    /\ UNCHANGED <<elems, notFullCond, got, panicked>>

\* GetWait(), blocking.go 117-131, up to its return or its first Wait, as one
\* of at most n calls.
GetWaitWithin(p, n) ==
    /\ UNCHANGED variants
    /\ CanCallWithin(p, n) /\ CanLock
    /\ Called("GetWait")
    /\ IF GetWaitLoop(elems, FALSE)
       THEN NotEmptyWait(p, "GetWait", "block")
       ELSE GetWaitTake(p, FALSE)
    /\ UNCHANGED <<initialElems, capacity, readers, local, iteratorCh, offered>>

GetWait(p) == GetWaitWithin(p, MaxOps)

\* GetWait after a wake-up.
GetWaitResume(p) ==
    /\ UNCHANGED variants
    /\ panicked = "" /\ pc[p] = "GetWait" /\ Woken(p) /\ CanLock
    /\ IF GetWaitLoop(elems, TRUE)
       THEN NotEmptyWait(p, "GetWait", "rewait")
       ELSE GetWaitTake(p, TRUE)
    /\ UNCHANGED <<initialElems, capacity, readers, local, iteratorCh, calls, offered>>

\* Clear(), blocking.go 143-154.
Clear(p) ==
    /\ UNCHANGED variants
    /\ CanCall(p) /\ CanLock
    /\ Called("Clear")
    /\ elems' = <<>>
    /\ notFullCond' \in ClearNotFull(notFullCond)
    /\ last' = Event("Clear", ZeroVal, "return", FALSE, ZeroVal, "nil", elems)
    /\ UNCHANGED <<initialElems, capacity, notEmptyCond, readers, pc, local, iteratorCh,
                   panicked, offered, got>>

----------------------------------------------------------------------------
\* Examination.

\* PeekWait returning without signalling.
PeekWaitNoSignal(cond) == {cond}

\* bq.notEmptyCond.Signal() in PeekWait, blocking.go 209-210: "send the not
\* empty signal again in case any remove method waits".
PeekWaitSignal(cond) == Signal(cond)

\* The statements of PeekWait after its loop, blocking.go 207-212.
PeekWaitRead(p, woken) ==
    IF Len(elems) = 0
    THEN /\ panicked' = "PeekWait"
         /\ UNCHANGED <<notEmptyCond, last, pc>>
    ELSE /\ notEmptyCond' \in PeekWaitSignal(notEmptyCond)
         /\ last' = Event("PeekWait", ZeroVal, "return", woken, Head(elems), "nil", <<>>)
         /\ pc' = [pc EXCEPT ![p] = "idle"]
         /\ UNCHANGED panicked

\* PeekWait(), blocking.go 199-213, up to its return or its first Wait.
PeekWait(p) ==
    /\ UNCHANGED variants
    /\ CanCall(p) /\ CanLock
    /\ Called("PeekWait")
    /\ IF PeekWaitLoop(elems, FALSE)
       THEN NotEmptyWait(p, "PeekWait", "block")
       ELSE PeekWaitRead(p, FALSE) /\ UNCHANGED <<elems, notFullCond, got>>
    /\ UNCHANGED <<initialElems, capacity, readers, local, iteratorCh, offered>>

\* PeekWait after a wake-up.
PeekWaitResume(p) ==
    /\ UNCHANGED variants
    /\ panicked = "" /\ pc[p] = "PeekWait" /\ Woken(p) /\ CanLock
    /\ IF PeekWaitLoop(elems, TRUE)
       THEN NotEmptyWait(p, "PeekWait", "rewait")
       ELSE PeekWaitRead(p, TRUE) /\ UNCHANGED <<elems, notFullCond, got>>
    /\ UNCHANGED <<initialElems, capacity, readers, local, iteratorCh, calls, offered>>

----------------------------------------------------------------------------
\* Iterator(), blocking.go 158-179.  It takes the read lock only, so several
\* Iterators can run at once; each access to bq.elems is a step of its own.

\* bq.lock.RLock() and make(chan T, bq.size()), blocking.go 159-163.
Iterator(p) ==
    /\ UNCHANGED variants
    /\ CanCall(p) /\ calls["Iterator"] < MaxIterators
    /\ Called("Iterator")
    /\ readers' = readers \cup {p}
    /\ pc' = [pc EXCEPT ![p] = "Iterator"]
    /\ iteratorCh' = [iteratorCh EXCEPT ![p] = <<>>]
    /\ local' = [local EXCEPT ![p].chcap = Len(elems), ![p].live = elems]
    /\ UNCHANGED <<elems, initialElems, capacity, notEmptyCond, notFullCond, panicked,
                   last, offered, got>>

\* The loop head: get() tests bq.isEmpty(), blocking.go 170 and 266.  On an
\* error the loop ends, the channel is closed, the read lock released.
IteratorIsEmpty(p) ==
    /\ UNCHANGED variants
    /\ panicked = "" /\ pc[p] = "Iterator"
    /\ IF isEmpty(elems)
       THEN /\ readers' = readers \ {p}
            /\ pc' = [pc EXCEPT ![p] = "idle"]
            /\ last' = Event("Iterator", ZeroVal, "return", FALSE, ZeroVal, "nil", iteratorCh[p])
            /\ iteratorCh' = [iteratorCh EXCEPT ![p] = <<>>]
            /\ local' = [local EXCEPT ![p].chcap = 0, ![p].live = <<>>]
       ELSE /\ pc' = [pc EXCEPT ![p] = "Iterator.elem"]
            /\ UNCHANGED <<readers, last, iteratorCh, local>>
    /\ UNCHANGED <<elems, initialElems, capacity, notEmptyCond, notFullCond, panicked,
                   calls, offered, got>>

\* elem := bq.elems[0], blocking.go 270.
IteratorElem(p) ==
    /\ UNCHANGED variants
    /\ panicked = "" /\ pc[p] = "Iterator.elem"
    /\ IF Len(elems) = 0
       THEN panicked' = "Iterator" /\ UNCHANGED <<pc, local>>
       ELSE /\ local' = [local EXCEPT ![p].elem = Head(elems)]
            /\ pc' = [pc EXCEPT ![p] = "Iterator.load"]
            /\ UNCHANGED panicked
    /\ UNCHANGED <<elems, initialElems, capacity, notEmptyCond, notFullCond, readers,
                   iteratorCh, calls, last, offered, got>>

\* The right-hand side of bq.elems = bq.elems[1:], blocking.go 271.
IteratorLoad(p) ==
    /\ UNCHANGED variants
    /\ panicked = "" /\ pc[p] = "Iterator.load"
    /\ IF Len(elems) = 0
       THEN panicked' = "Iterator" /\ UNCHANGED <<pc, local>>
       ELSE /\ local' = [local EXCEPT ![p].hdr = Tail(elems)]
            /\ pc' = [pc EXCEPT ![p] = "Iterator.store"]
            /\ UNCHANGED panicked
    /\ UNCHANGED <<elems, initialElems, capacity, notEmptyCond, notFullCond, readers,
                   iteratorCh, calls, last, offered, got>>

\* The assignment to bq.elems and bq.notFullCond.Signal(), blocking.go 271-273.
IteratorStore(p) ==
    /\ UNCHANGED variants
    /\ panicked = "" /\ pc[p] = "Iterator.store"
    /\ elems' = local[p].hdr
    /\ notFullCond' \in Signal(notFullCond)
    /\ local' = [local EXCEPT ![p].hdr = <<>>]
    /\ pc' = [pc EXCEPT ![p] = "Iterator.send"]
    /\ UNCHANGED <<initialElems, capacity, notEmptyCond, readers, iteratorCh, panicked, calls,
                   last, offered, got>>

\* iteratorCh <- elem, blocking.go 175: the send waits while the buffer is
\* full, and nothing receives before Iterator returns.
IteratorSend(p) ==
    /\ UNCHANGED variants
    /\ panicked = "" /\ pc[p] = "Iterator.send"
    /\ Len(iteratorCh[p]) < local[p].chcap
    /\ iteratorCh' = [iteratorCh EXCEPT ![p] = Append(@, local[p].elem)]
    /\ local' = [local EXCEPT ![p].elem = ZeroVal]
    /\ pc' = [pc EXCEPT ![p] = "Iterator"]
    /\ UNCHANGED <<elems, initialElems, capacity, notEmptyCond, notFullCond, readers,
                   panicked, calls, last, offered, got>>

----------------------------------------------------------------------------
Next ==
    \/ \E p \in Procs, e \in Elems : Offer(p, e)
    \/ \E p \in Procs, e \in Elems : OfferWait(p, e)
    \/ \E p \in Procs : OfferWaitResume(p)
    \/ \E p \in Procs : Reset(p)
    \/ \E p \in Procs : Get(p)
    \/ \E p \in Procs : GetWait(p)
    \/ \E p \in Procs : GetWaitResume(p)
    \/ \E p \in Procs : Clear(p)
    \/ \E p \in Procs : PeekWait(p)
    \/ \E p \in Procs : PeekWaitResume(p)
    \/ \E p \in Procs : Iterator(p)
    \/ \E p \in Procs : IteratorIsEmpty(p)
    \/ \E p \in Procs : IteratorElem(p)
    \/ \E p \in Procs : IteratorLoad(p)
    \/ \E p \in Procs : IteratorStore(p)
    \/ \E p \in Procs : IteratorSend(p)

Spec == Init /\ [][Next]_vars

----------------------------------------------------------------------------
\* What the properties below speak of.

\* The queue is at its capacity / the elements NewBlocking left in the queue.
Full == capacity # <<>> /\ Len(elems) >= capacity[1]
Constructed ==
    IF capacity # <<>> /\ Len(initialElems) > capacity[1]
    THEN SubSeq(initialElems, 1, capacity[1])
    ELSE initialElems

Min(a, b) == IF a <= b THEN a ELSE b

\* No goroutine is on its way: each is idle or suspended in a Wait.
Quiescent == \A p \in Procs : pc[p] = "idle" \/ Blocked(p)

\* This step is the return of a call of op.
Returned(op) ==
    /\ panicked' = ""
    /\ last'.op = op /\ last'.kind = "return"
    /\ \/ calls'[op] = calls[op] + 1
       \/ \E p \in Procs : pc[p] = op /\ pc'[p] = "idle"

\* This step is a call of op that suspends the caller.
Suspended(op) ==
    /\ calls'[op] = calls[op] + 1
    /\ \E p \in Procs : pc[p] = "idle" /\ pc'[p] = op

----------------------------------------------------------------------------
\* C1: a caller woken from a Wait re-validates its predicate: GetWait and
\* PeekWait never index an empty queue, a returning OfferWait found the queue
\* below capacity, and a returning GetWait returns the head that was in the
\* queue and removes it, so no element is consumed by two waiters.
WokenCallersRevalidate ==
    /\ [](panicked \notin {"GetWait", "PeekWait"})
    /\ [][/\ Returned("GetWait") =>
               elems # <<>> /\ last'.ret = Head(elems) /\ elems' = Tail(elems)
          /\ Returned("PeekWait") => elems # <<>> /\ last'.ret = Head(elems)
          /\ Returned("OfferWait") => ~Full]_vars

\* A woken GetWait caller found the queue empty again and went back to waiting.
WokenGetWaitWaitsAgain == last.op = "GetWait" /\ last.kind = "rewait"

\* C2: with only GetWait, Offer and OfferWait called, N GetWait callers and M
\* elements made available: never more than min(N, M) callers have returned,
\* what they returned is contained as a multiset in what was made available,
\* no element is lost, and when no goroutine is on its way exactly min(N, M)
\* callers have returned.
GetWaitersShareElements ==
    Used \subseteq {"GetWait", "Offer", "OfferWait"} =>
        LET N == calls["GetWait"]
            M == Len(Constructed) + Len(offered)
        IN  /\ Len(got) <= Min(N, M)
            /\ SubBag(got, Constructed \o offered)
            /\ Len(got) + Len(elems) = M
            /\ Quiescent => Len(got) = Min(N, M)

\* Two callers, one of them woken from its Wait, have returned the two
\* different elements that were offered to an empty queue.
TwoGetWaitersServed ==
    /\ Used \subseteq {"GetWait", "Offer", "OfferWait"}
    /\ initialElems = <<>> /\ calls["GetWait"] = 2 /\ Len(offered) = 2
    /\ Len(got) = 2 /\ got[1] # got[2]
    /\ last.op = "GetWait" /\ last.kind = "return" /\ last.woken
    /\ Quiescent

\* C3: a Reset leaves no goroutine suspended on notEmptyCond, and none on
\* notFullCond when it leaves the queue below capacity.
ResetWakesAllWaiters ==
    [][Returned("Reset") =>
         /\ notEmptyCond' = {}
         /\ ~Full' => notFullCond' = {}]_vars

\* C4: OfferWait on a queue at capacity suspends the caller and inserts
\* nothing; an OfferWait returns only from a queue below capacity, with its
\* element appended at the tail; a removal by Get or GetWait wakes one of the
\* goroutines suspended in OfferWait; and, Reset apart, whenever a goroutine is
\* suspended in OfferWait while the queue is below capacity, a woken one is on
\* its way.
OfferWaitWaitsForSlot ==
    /\ [][/\ (calls'["OfferWait"] = calls["OfferWait"] + 1 /\ Full) =>
               Suspended("OfferWait") /\ elems' = elems /\ offered' = offered
          /\ Returned("OfferWait") => ~Full /\ elems' = Append(elems, last'.arg)
          /\ ((Returned("Get") \/ Returned("GetWait")) /\ last'.err = "nil"
                 /\ notFullCond # {}) =>
               Cardinality(notFullCond') = Cardinality(notFullCond) - 1]_vars
    /\ []("Reset" \notin Used =>
            ((notFullCond # {} /\ ~Full) =>
                \E p \in Procs : pc[p] = "OfferWait" /\ Woken(p)))

\* An OfferWait that was suspended on a full queue of two has returned after
\* a removal by Get or GetWait, its element behind the one that was left.
OfferWaitServedAfterRemoval ==
    /\ last.op = "OfferWait" /\ last.kind = "return" /\ last.woken
    /\ Used \subseteq {"OfferWait", "Get", "GetWait"}
    /\ capacity = <<2>> /\ Len(got) = 1 /\ Len(elems) = 2
    /\ elems[2] = last.arg

\* C5: with a capacity configured, the number of enqueued elements never
\* exceeds it.
SizeWithinCapacity == capacity # <<>> => Len(elems) <= capacity[1]

----------------------------------------------------------------------------
\* K callers suspended in GetWait on an empty bounded queue, then offers and
\* at most one Reset: the queue is first drained with Get, then callers enter
\* GetWait and are suspended, and only then do the offers and the Reset begin.

DrainGet(p) == calls["GetWait"] = 0 /\ elems # <<>> /\ Get(p)

BlockGetWait(p) ==
    /\ elems = <<>> /\ offered = <<>>
    /\ calls["Offer"] + calls["OfferWait"] + calls["Reset"] = 0
    /\ GetWait(p)

ThenOffer(p, e) == calls["GetWait"] > 0 /\ Offer(p, e)

ThenOfferWait(p, e) == calls["GetWait"] > 0 /\ OfferWait(p, e)

OneReset(p) == calls["GetWait"] > 0 /\ calls["Reset"] = 0 /\ Reset(p)

BlockedGettersInit == Init /\ capacity # <<>>

BlockedGettersNext ==
    \/ \E p \in Procs : DrainGet(p)
    \/ \E p \in Procs : BlockGetWait(p)
    \/ \E p \in Procs, e \in Elems : ThenOffer(p, e)
    \/ \E p \in Procs, e \in Elems : ThenOfferWait(p, e)
    \/ \E p \in Procs : OneReset(p)
    \/ \E p \in Procs : GetWaitResume(p)
    \/ \E p \in Procs : OfferWaitResume(p)

SpecBlockedGetters == BlockedGettersInit /\ [][BlockedGettersNext]_vars

\* What the GetWait callers have returned: got without what the draining
\* Gets returned.
Waited == SubSeq(got, calls["Get"] + 1, Len(got))

\* C6, as stated: once as many elements have been inserted as there are
\* GetWait callers and no goroutine is on its way, every caller has returned
\* and the multiset returned is the multiset offered.
EachGetterServedDespiteReset ==
    (Quiescent /\ calls["GetWait"] > 0 /\ Len(offered) = calls["GetWait"]) =>
        Len(Waited) = calls["GetWait"] /\ SameBag(Waited, offered)

\* C6, amended: what the callers returned is contained in what was offered,
\* together with the snapshot if a Reset restored it; and without a Reset,
\* once K elements have been inserted and no goroutine is on its way, all K
\* callers have returned exactly the multiset offered.
GettersServedFromOfferedOrSnapshot ==
    /\ Len(Waited) <= calls["GetWait"]
    /\ SubBag(Waited, offered \o (IF calls["Reset"] > 0 THEN initialElems ELSE <<>>))
    /\ (calls["Reset"] = 0 /\ Quiescent /\ Len(offered) = calls["GetWait"]) =>
           Len(Waited) = calls["GetWait"] /\ SameBag(Waited, offered)

\* Two suspended callers have each returned one of the two elements offered.
TwoBlockedGettersServed ==
    /\ calls["GetWait"] = 2 /\ calls["Reset"] = 0 /\ Len(offered) = 2
    /\ Len(Waited) = 2 /\ Quiescent /\ last.op = "GetWait" /\ last.woken

\* C7: Clear empties the queue in one step, returns what was in it and leaves
\* no goroutine suspended on notFullCond; and with only OfferWait and Clear
\* called, when no goroutine is on its way the number of elements is the
\* smaller of the capacity and of that number plus the callers still
\* suspended: min(suspended callers, capacity) of them completed.
ClearWakesAllOfferWaiters ==
    /\ [][Returned("Clear") =>
            elems' = <<>> /\ last'.removed = elems /\ notFullCond' = {}]_vars
    /\ []((Used \subseteq {"OfferWait", "Clear"} /\ capacity # <<>> /\ Quiescent) =>
            Len(elems) = Min(capacity[1], Len(elems) + Cardinality(notFullCond)))

\* After a Clear of a full queue with two callers suspended in OfferWait,
\* the woken callers have filled the queue again.
OfferWaitersServedAfterClear ==
    /\ Used = {"OfferWait", "Clear"} /\ calls["Clear"] = 1 /\ calls["OfferWait"] = 2
    /\ capacity # <<>> /\ capacity # <<0>>
    /\ Len(Constructed) = capacity[1] /\ Len(offered) = Min(2, capacity[1])
    /\ last.op = "OfferWait" /\ last.kind = "return" /\ last.woken
    /\ Quiescent /\ Full

\* C8: with no Reset, Clear or Iterator, what Get and GetWait have returned,
\* followed by what is in the queue, is the constructed elements followed by
\* the elements inserted, in insertion order.
FifoOrder ==
    Used \cap {"Reset", "Clear", "Iterator"} = {} => got \o elems = Constructed \o offered

\* An initial element and then a different, offered one have been returned.
TwoReturnedInOrder ==
    /\ Used \cap {"Reset", "Clear", "Iterator"} = {}
    /\ Len(Constructed) = 1 /\ Len(offered) >= 1 /\ Len(got) = 2 /\ got[1] # got[2]

\* C9: a call of Offer returns in the step that makes it; at capacity it
\* returns ErrQueueIsFull and leaves the elements as they were, otherwise it
\* returns nil and the elements are the old ones followed by the new one.
OfferNeverWaits ==
    [][calls'["Offer"] = calls["Offer"] + 1 =>
         /\ Returned("Offer") /\ pc' = pc
         /\ IF Full
            THEN last'.err = "ErrQueueIsFull" /\ elems' = elems
            ELSE last'.err = "nil" /\ elems' = Append(elems, last'.arg)]_vars

\* On a bounded queue one Offer has been rejected and a later one, after a
\* removal, has appended its element behind the one that was left.
OfferRejectedThenAccepted ==
    /\ last.op = "Offer" /\ last.err = "nil" /\ capacity = <<2>>
    /\ Len(elems) = 2 /\ elems[2] = last.arg
    /\ calls["Offer"] = 2 /\ Len(offered) = 1 /\ Used = {"Offer", "Get"}

\* C10: Reset leaves the element sequence that NewBlocking left.
ResetRestoresConstruction ==
    [][Returned("Reset") => elems' = Constructed]_vars

----------------------------------------------------------------------------
\* The Circular queue (circular.go): a ring of len(q.elems) slots with the
\* 0-based indexes head and tail and the count size, guarded by one
\* sync.RWMutex.  circular.elems[i + 1] is q.elems[i].

\* NewCircular(givenElems, capacity), circular.go: copy copies the first
\* min(len(elems), len(givenElems)) elements, the other slots hold zero values.
NewCircular(givenElems, cap) ==
    [built |-> TRUE,
     initialElements |-> givenElems,
     elems |-> [i \in 1..cap |-> IF i <= Len(givenElems) THEN givenElems[i] ELSE ZeroVal],
     head |-> 0,
     tail |-> IF Len(givenElems) < cap THEN Len(givenElems) ELSE 0,
     size |-> IF Len(givenElems) < cap THEN Len(givenElems) ELSE cap]

\* q.elems[q.head] or an index past the end of q.elems panics.
circularOutOfRange(q, i) == i < 0 \/ i >= Len(q.elems)

\* copy(q.elems, q.initialElements).
circularCopy(q) ==
    [i \in 1..Len(q.elems) |->
        IF i <= Len(q.initialElements) THEN q.initialElements[i] ELSE q.elems[i]]

\* get() moving head on although the queue is empty.
circularGetMovesHead(q) ==
    IF q.size = 0
    THEN [q |-> [q EXCEPT !.head = IF Len(q.elems) = 0 THEN 0 ELSE (q.head + 1) % Len(q.elems)],
          v |-> ZeroVal, err |-> "ErrNoElementsAvailable"]
    ELSE [q |-> [q EXCEPT !.head = (q.head + 1) % Len(q.elems), !.size = q.size - 1],
          v |-> q.elems[q.head + 1], err |-> "nil"]

\* get(): the queue it leaves, the element and the error.  Called only where
\* q.elems[q.head] exists or q is empty.
circularGet(q) ==
    IF q.size = 0
    THEN [q |-> q, v |-> ZeroVal, err |-> "ErrNoElementsAvailable"]
    ELSE [q |-> [q EXCEPT !.head = (q.head + 1) % Len(q.elems), !.size = q.size - 1],
          v |-> q.elems[q.head + 1], err |-> "nil"]

\* The loop of Clear: get() until it fails.  It ends when size counts down to 0.
RECURSIVE circularDrain(_)
circularDrain(q) ==
    IF circularGet(q).err # "nil"
    THEN <<>>
    ELSE <<circularGet(q).v>> \o circularDrain(circularGet(q).q)

\* The loop of Contains: for i := q.head; i < q.size; i++ looks at slot
\* (q.head + i) % len(q.elems).
circularContainsIndexes(q) == {(q.head + i) % Len(q.elems) : i \in q.head..(q.size - 1)}
circularContains(q, elem) ==
    /\ q.size # 0
    /\ \E idx \in circularContainsIndexes(q) : q.elems[idx + 1] = elem

\* The goroutines and the Blocking queue of a behaviour that drives another queue.
NoBlocking ==
    /\ elems = <<>> /\ initialElems = <<>> /\ capacity = <<>>
    /\ notEmptyCond = {} /\ notFullCond = {}
    /\ offered = <<>> /\ got = <<>>
Goroutines ==
    /\ readers = {}
    /\ pc = [p \in Procs |-> "idle"]
    /\ local = [p \in Procs |-> [elem |-> ZeroVal, hdr |-> <<>>, chcap |-> 0, live |-> <<>>]]
    /\ iteratorCh = [p \in Procs |-> <<>>]
    /\ panicked = ""
    /\ calls = [o \in OpNames |-> 0]

blocking == <<elems, initialElems, capacity, notEmptyCond, notFullCond, offered, got>>

\* The options ignored: the capacity parameter stands.
applyOptionsIgnored(cap, opts) == cap

\* for _, o := range opts { o.apply(&options) } on options{capacity:
\* &capacity}, circular.go and options.go: each WithCapacity(c) in opts
\* overwrites the capacity, so the last one stands.
applyOptions(cap, opts) == IF opts = <<>> THEN cap ELSE opts[Len(opts)]

\* NewCircular(givenElems, capacity, opts...): opts are WithCapacity options,
\* each one the capacity it carries.
CircularInit ==
    /\ \E givenElems \in SeqsUpTo(Elems, MaxInit), cap \in 0..MaxCap,
          opts \in SeqsUpTo(0..MaxCap, MaxOptions) :
         /\ circular = NewCircular(givenElems, applyOptions(cap, opts))
         /\ last = Event("NewCircular",
                         [givenElems |-> givenElems, capacity |-> cap, opts |-> opts],
                         "return", FALSE, ZeroVal, "nil", <<>>)
    /\ NoBlocking /\ Goroutines
    /\ priority = NotBuilt /\ backing = NotBuilt /\ linked = NotBuilt

\* What a step on the Circular queue leaves alone.
notCircular == <<blocking, priority, backing, linked>>

\* An Offer that moves head past the element it overwrites.
circularOfferEvicts(q, item) ==
    [q EXCEPT !.size = IF @ < Len(q.elems) THEN @ + 1 ELSE @,
              !.head = IF q.size < Len(q.elems) THEN @ ELSE (@ + 1) % Len(q.elems),
              !.elems[q.tail + 1] = item,
              !.tail = (@ + 1) % Len(q.elems)]

\* An Offer that writes the element into the slot at head.
circularOfferAtHead(q, item) ==
    [q EXCEPT !.size = IF @ < Len(q.elems) THEN @ + 1 ELSE @,
              !.elems[q.head + 1] = item,
              !.tail = (@ + 1) % Len(q.elems)]

\* Offer(item), circular.go: when the queue is full only elems[tail] and tail change.
circularOffer(q, item) ==
    [q EXCEPT !.size = IF @ < Len(q.elems) THEN @ + 1 ELSE @,
              !.elems[q.tail + 1] = item,
              !.tail = (@ + 1) % Len(q.elems)]
CircularOffer(p, item) ==
    /\ circular.built /\ CanCall(p) /\ CanLock
    /\ Called("Offer")
    /\ IF circularOutOfRange(circular, circular.tail)
       THEN panicked' = "Offer" /\ UNCHANGED <<circular, last>>
       ELSE /\ circular' = circularOffer(circular, item)
            /\ last' = Event("Offer", item, "return", FALSE, ZeroVal, "nil", <<>>)
            /\ UNCHANGED panicked
    /\ UNCHANGED <<readers, pc, local, iteratorCh, notCircular>>

\* A Reset that leaves tail where it is.
circularResetKeepsTail(q) ==
    [q EXCEPT !.elems = circularCopy(q),
              !.head = 0,
              !.size = Len(q.initialElements)]

\* Reset(), circular.go.
circularReset(q) ==
    [q EXCEPT !.elems = circularCopy(q),
              !.head = 0,
              !.tail = IF Len(q.initialElements) < Len(q.elems)
                       THEN Len(q.initialElements) ELSE 0,
              !.size = Len(q.initialElements)]
CircularReset(p) ==
    /\ circular.built /\ CanCall(p) /\ CanLock
    /\ Called("Reset")
    /\ circular' = circularReset(circular)
    /\ last' = Event("Reset", ZeroVal, "return", FALSE, ZeroVal, "nil", <<>>)
    /\ UNCHANGED <<readers, pc, local, iteratorCh, panicked, notCircular>>

\* Get(), circular.go.
CircularGet(p) ==
    /\ circular.built /\ CanCall(p) /\ CanLock
    /\ Called("Get")
    /\ IF circular.size # 0 /\ circularOutOfRange(circular, circular.head)
       THEN panicked' = "Get" /\ UNCHANGED <<circular, last>>
       ELSE /\ circular' = circularGet(circular).q
            /\ last' = Event("Get", ZeroVal, "return", FALSE, circularGet(circular).v,
                             circularGet(circular).err, <<>>)
            /\ UNCHANGED panicked
    /\ UNCHANGED <<readers, pc, local, iteratorCh, notCircular>>

\* Clear(), circular.go: get() until it fails, then head and tail are set to 0.
\* With a negative size get() never fails and the slice grows until the
\* program runs out of memory.
CircularClear(p) ==
    /\ circular.built /\ CanCall(p) /\ CanLock
    /\ Called("Clear")
    /\ IF circular.size < 0 \/ (circular.size # 0 /\ circularOutOfRange(circular, circular.head))
       THEN panicked' = "Clear" /\ UNCHANGED <<circular, last>>
       ELSE /\ circular' = [circular EXCEPT !.head = 0, !.tail = 0, !.size = 0]
            /\ last' = Event("Clear", ZeroVal, "return", FALSE, ZeroVal, "nil",
                             circularDrain(circular))
            /\ UNCHANGED panicked
    /\ UNCHANGED <<readers, pc, local, iteratorCh, notCircular>>

\* Peek(), circular.go: under the read lock.
CircularPeek(p) ==
    /\ circular.built /\ CanCall(p)
    /\ Called("Peek")
    /\ IF circular.size # 0 /\ circularOutOfRange(circular, circular.head)
       THEN panicked' = "Peek" /\ UNCHANGED last
       ELSE /\ last' = IF circular.size = 0
                       THEN Event("Peek", ZeroVal, "return", FALSE, ZeroVal,
                                  "ErrNoElementsAvailable", <<>>)
                       ELSE Event("Peek", ZeroVal, "return", FALSE,
                                  circular.elems[circular.head + 1], "nil", <<>>)
            /\ UNCHANGED panicked
    /\ UNCHANGED <<circular, readers, pc, local, iteratorCh, notCircular>>

\* Contains(elem), circular.go: under the read lock.  With no slots the first
\* (q.head + i) % len(q.elems) divides by zero.
CircularContains(p, elem) ==
    /\ circular.built /\ CanCall(p)
    /\ Called("Contains")
    /\ IF circular.size # 0 /\ circular.head < circular.size /\ Len(circular.elems) = 0
       THEN panicked' = "Contains" /\ UNCHANGED last
       ELSE /\ last' = Event("Contains", elem, "return", FALSE,
                             circularContains(circular, elem), "nil", <<>>)
            /\ UNCHANGED panicked
    /\ UNCHANGED <<circular, readers, pc, local, iteratorCh, notCircular>>

\* Iterator(), circular.go: like Blocking's it takes the read lock only, and
\* get() writes q.head and q.size.  make(chan T, q.size) panics on a negative size.
CircularIterator(p) ==
    /\ circular.built /\ CanCall(p) /\ calls["Iterator"] < MaxIterators
    /\ Called("Iterator")
    /\ IF circular.size < 0
       THEN panicked' = "Iterator" /\ UNCHANGED <<readers, pc, iteratorCh, local>>
       ELSE /\ readers' = readers \cup {p}
            /\ pc' = [pc EXCEPT ![p] = "Iterator"]
            /\ iteratorCh' = [iteratorCh EXCEPT ![p] = <<>>]
            /\ local' = [local EXCEPT ![p].chcap = circular.size]
            /\ UNCHANGED panicked
    /\ UNCHANGED <<circular, last, notCircular>>

\* The loop head: get() tests q.isEmpty().  On an error the loop ends, the
\* channel is closed and the read lock released.
CircularIteratorIsEmpty(p) ==
    /\ circular.built /\ panicked = "" /\ pc[p] = "Iterator"
    /\ IF circular.size = 0
       THEN /\ readers' = readers \ {p}
            /\ pc' = [pc EXCEPT ![p] = "idle"]
            /\ last' = Event("Iterator", ZeroVal, "return", FALSE, ZeroVal, "nil", iteratorCh[p])
            /\ iteratorCh' = [iteratorCh EXCEPT ![p] = <<>>]
            /\ local' = [local EXCEPT ![p].chcap = 0]
       ELSE /\ pc' = [pc EXCEPT ![p] = "Iterator.load"]
            /\ UNCHANGED <<readers, last, iteratorCh, local>>
    /\ UNCHANGED <<circular, panicked, calls, notCircular>>

\* item := q.elems[q.head] and the right-hand side of
\* q.head = (q.head + 1) % len(q.elems).
CircularIteratorLoad(p) ==
    /\ circular.built /\ panicked = "" /\ pc[p] = "Iterator.load"
    /\ IF circularOutOfRange(circular, circular.head)
       THEN panicked' = "Iterator" /\ UNCHANGED <<pc, local>>
       ELSE /\ local' = [local EXCEPT ![p].elem = circular.elems[circular.head + 1],
                                      ![p].hdr = <<(circular.head + 1) % Len(circular.elems)>>]
            /\ pc' = [pc EXCEPT ![p] = "Iterator.store"]
            /\ UNCHANGED panicked
    /\ UNCHANGED <<circular, readers, iteratorCh, calls, last, notCircular>>

\* The assignment to q.head, and q.size--.
CircularIteratorStore(p) ==
    /\ circular.built /\ panicked = "" /\ pc[p] = "Iterator.store"
    /\ circular' = [circular EXCEPT !.head = local[p].hdr[1], !.size = @ - 1]
    /\ local' = [local EXCEPT ![p].hdr = <<>>]
    /\ pc' = [pc EXCEPT ![p] = "Iterator.send"]
    /\ UNCHANGED <<readers, iteratorCh, panicked, calls, last, notCircular>>

\* iteratorCh <- elem: the send waits while the buffer is full.
CircularIteratorSend(p) ==
    /\ circular.built /\ panicked = "" /\ pc[p] = "Iterator.send"
    /\ Len(iteratorCh[p]) < local[p].chcap
    /\ iteratorCh' = [iteratorCh EXCEPT ![p] = Append(@, local[p].elem)]
    /\ local' = [local EXCEPT ![p].elem = ZeroVal]
    /\ pc' = [pc EXCEPT ![p] = "Iterator"]
    /\ UNCHANGED <<circular, readers, panicked, calls, last, notCircular>>

CircularNext ==
    \/ \E p \in Procs, item \in Elems : CircularOffer(p, item)
    \/ \E p \in Procs : CircularReset(p)
    \/ \E p \in Procs : CircularGet(p)
    \/ \E p \in Procs : CircularClear(p)
    \/ \E p \in Procs : CircularPeek(p)
    \/ \E p \in Procs, elem \in Elems : CircularContains(p, elem)
    \/ \E p \in Procs : CircularIterator(p)
    \/ \E p \in Procs : CircularIteratorIsEmpty(p)
    \/ \E p \in Procs : CircularIteratorLoad(p)
    \/ \E p \in Procs : CircularIteratorStore(p)
    \/ \E p \in Procs : CircularIteratorSend(p)

SpecCircular == CircularInit /\ [][CircularNext]_vars

----------------------------------------------------------------------------
\* What the properties of the Circular queue speak of.

\* No Iterator is on its way and size counts slots of the ring.
CircularSound ==
    /\ circular.built /\ panicked = "" /\ readers = {}
    /\ 0 <= circular.size /\ circular.size <= Len(circular.elems)

\* The live elements from head to tail: what Clear would return now.
CircularLive == circularDrain(circular)

\* This step is a whole call of op on the Circular queue, and it returns.
CircularReturned(op) ==
    /\ CircularSound
    /\ calls'[op] = calls[op] + 1
    /\ panicked' = ""

\* C11: an Offer on a Circular queue that holds as many elements as it has
\* slots returns nil, leaves Size() as it was, and leaves as live elements
\* the former ones without the oldest, followed by the offered one.
CircularOverwritesOldest ==
    [][(/\ CircularReturned("Offer")
        /\ circular.size = Len(circular.elems) /\ circular.size >= 1)
       => /\ last'.err = "nil"
          /\ circular'.size = circular.size
          /\ circularDrain(circular') = Append(Tail(CircularLive), last'.arg)]_vars

\* C11, amended: an Offer on a Circular queue that holds as many elements as
\* it has slots returns nil and leaves Size() as it was; the offered element
\* takes the place of the element in slot tail, head stays, and the other
\* live elements stay where they are.  Where tail = head, as after
\* NewCircular with as many elements as slots, the offered element replaces
\* the oldest one at the head and is the next one Get returns.
CircularOverwritesInPlace ==
    [][(/\ CircularSound
        /\ calls'["Offer"] = calls["Offer"] + 1
        /\ circular.size = Len(circular.elems) /\ circular.size >= 1)
       => /\ panicked' = ""
          /\ last'.err = "nil"
          /\ circular'.size = circular.size
          /\ circularDrain(circular')
               = [CircularLive EXCEPT
                    ![((circular.tail - circular.head) % Len(circular.elems)) + 1] = last'.arg]]_vars

\* An Offer has overwritten an element of a full ring of two or more slots:
\* tail has moved on and head has not.
CircularOverwritten ==
    /\ circular.built /\ panicked = ""
    /\ last.op = "Offer" /\ last.err = "nil"
    /\ Len(circular.elems) >= 2 /\ circular.size = Len(circular.elems)
    /\ circular.tail # circular.head

\* C12: the size of a Circular queue is never negative and never above the
\* number of slots.
CircularSizeWithinCapacity ==
    circular.built => 0 <= circular.size /\ circular.size <= Len(circular.elems)

\* C13: Contains(x) on a Circular queue returns true exactly when x is one of
\* the live elements, wherever head is.
CircularContainsFindsLive ==
    [][CircularReturned("Contains")
       => (last'.ret <=> \E i \in 1..Len(CircularLive) : CircularLive[i] = last'.arg)]_vars

\* C14: Reset on a Circular queue restores the state NewCircular built: head 0,
\* size the number of initial elements clamped to the number of slots, the
\* tail that goes with it, and the live elements Clear returned right after
\* NewCircular.
CircularResetRestoresConstruction ==
    [][CircularReturned("Reset")
       => /\ circular'.head = 0
          /\ circular'.size = Min(Len(circular.initialElements), Len(circular.elems))
          /\ circular'.tail = NewCircular(circular.initialElements, Len(circular.elems)).tail
          /\ circularDrain(circular')
               = circularDrain(NewCircular(circular.initialElements, Len(circular.elems)))]_vars

----------------------------------------------------------------------------
\* The Priority queue (priority.go): a binary heap in the slice
\* pq.elements.elems, ordered by the caller's lessFunc, guarded by one
\* sync.RWMutex.  h.elems[i + 1] is the element with the Go index i.

PriorityElems == 1..MaxPriorityElem

\* The lessFunc of the caller: the tests order integers upwards or downwards.
LessFuncs == {"ascending", "descending"}
lessFunc(f, elem, otherElem) == IF f = "ascending" THEN elem < otherElem ELSE elem > otherElem

\* priorityHeap.Less and priorityHeap.Swap, priority.go 27-35.
Less(h, i, j) == lessFunc(h.lessFunc, h.elems[i + 1], h.elems[j + 1])
Swap(h, i, j) ==
    [h EXCEPT !.elems = [@ EXCEPT ![i + 1] = h.elems[j + 1], ![j + 1] = h.elems[i + 1]]]

\* container/heap's down(h, i0, n): sift the element at i down among the
\* first n, each time under the smaller of its children.
downLeftChild(h, i, n) == 2 * i + 1
downChild(h, i, n) ==
    IF 2 * i + 2 < n /\ Less(h, 2 * i + 2, 2 * i + 1) THEN 2 * i + 2 ELSE 2 * i + 1
RECURSIVE down(_, _, _)
down(h, i, n) ==
    IF 2 * i + 1 >= n
    THEN h
    ELSE IF ~Less(h, downChild(h, i, n), i)
         THEN h
         ELSE down(Swap(h, i, downChild(h, i, n)), downChild(h, i, n), n)

\* container/heap's up(h, j): sift the element at j up while it is less than
\* its parent (j - 1) / 2.
RECURSIVE up(_, _)
up(h, j) ==
    IF j = 0 \/ ~Less(h, j, (j - 1) \div 2)
    THEN h
    ELSE up(Swap(h, (j - 1) \div 2, j), (j - 1) \div 2)

\* heap.Init(h): down(h, i, n) for i from n/2 - 1 to 0.
RECURSIVE heapInitFrom(_, _)
heapInitFrom(h, i) == IF i < 0 THEN h ELSE heapInitFrom(down(h, i, Len(h.elems)), i - 1)
heapInit(h) == heapInitFrom(h, (Len(h.elems) \div 2) - 1)

\* heap.Push(h, x): priorityHeap.Push appends, then up(h, h.Len() - 1).
heapPush(h, x) == up([h EXCEPT !.elems = Append(@, x)], Len(h.elems))

\* heap.Pop(h) on a heap that is not empty: Swap(0, n), down(h, 0, n), then
\* priorityHeap.Pop takes the last element off.
heapPop(h) ==
    [h |-> [h EXCEPT !.elems = SubSeq(down(Swap(h, 0, Len(h.elems) - 1), 0,
                                            Len(h.elems) - 1).elems, 1, Len(h.elems) - 1)],
     v |-> down(Swap(h, 0, Len(h.elems) - 1), 0, Len(h.elems) - 1).elems[Len(h.elems)]]

\* sort.Slice(elems, less): the elements in the order of lessFunc.
RECURSIVE sortSlice(_, _)
sortSlice(s, f) ==
    IF s = <<>>
    THEN <<>>
    ELSE LET m == CHOOSE i \in DOMAIN s : \A j \in DOMAIN s : ~lessFunc(f, s[j], s[i])
         IN  <<s[m]>> \o sortSlice([i \in 1..(Len(s) - 1) |-> IF i < m THEN s[i] ELSE s[i + 1]], f)

\* NewPriority trimming the elements as they were given, unsorted.
NewPriorityUnsorted(elems0, f, cap) ==
    LET heapElems == IF cap # <<>> /\ cap[1] < Len(elems0)
                     THEN SubSeq(elems0, 1, cap[1])
                     ELSE elems0
        elementsHeap == heapInit([elems |-> heapElems, lessFunc |-> f])
    IN  [built |-> TRUE,
         initialElements |-> elementsHeap.elems,
         elements |-> elementsHeap,
         capacity |-> cap]

\* NewPriority(elems, lessFunc, WithCapacity(capacity)), priority.go 83-133.
NewPriority(elems0, f, cap) ==
    LET heapElems == IF cap # <<>> /\ cap[1] < Len(elems0)
                     THEN SubSeq(sortSlice(elems0, f), 1, cap[1])
                     ELSE elems0
        elementsHeap == heapInit([elems |-> heapElems, lessFunc |-> f])
    IN  [built |-> TRUE,
         initialElements |-> elementsHeap.elems,
         elements |-> elementsHeap,
         capacity |-> cap]

\* The loop of Clear: heap.Pop for each element.
RECURSIVE priorityDrain(_)
priorityDrain(h) ==
    IF Len(h.elems) = 0 THEN <<>> ELSE <<heapPop(h).v>> \o priorityDrain(heapPop(h).h)

\* down(h, i, n) indexes h.elems past its end (another goroutine has shortened it).
RECURSIVE downOutOfRange(_, _, _)
downOutOfRange(h, i, n) ==
    IF 2 * i + 1 >= n
    THEN FALSE
    ELSE IF 2 * i + 1 >= Len(h.elems) \/ (2 * i + 2 < n /\ 2 * i + 2 >= Len(h.elems))
         THEN TRUE
         ELSE IF ~Less(h, downChild(h, i, n), i)
              THEN FALSE
              ELSE downOutOfRange(Swap(h, i, downChild(h, i, n)), downChild(h, i, n), n)

PriorityInit ==
    /\ \E elems0 \in SeqsUpTo(PriorityElems, MaxPriorityInit), f \in LessFuncs,
          cap \in {<<>>} \cup {<<c>> : c \in 0..MaxCap} :
         /\ priority = NewPriority(elems0, f, cap)
         /\ last = Event("NewPriority", elems0, "return", FALSE, ZeroVal, "nil", <<>>)
    /\ NoBlocking /\ Goroutines
    /\ circular = NotBuilt /\ backing = NotBuilt /\ linked = NotBuilt

\* What a step on the Priority queue leaves alone.
notPriority == <<blocking, circular, backing, linked>>

\* The test of Offer with the comparison off by one.
priorityIsFullOffByOne(pq) == pq.capacity # <<>> /\ Len(pq.elements.elems) > pq.capacity[1]

\* pq.capacity != nil && pq.elements.Len() >= *pq.capacity, priority.go 143.
priorityIsFull(pq) == pq.capacity # <<>> /\ Len(pq.elements.elems) >= pq.capacity[1]

\* Offer(elem), priority.go 139-150.
PriorityOffer(p, elem) ==
    /\ priority.built /\ CanCall(p) /\ TotalCalls < MaxPriorityOps /\ CanLock
    /\ Called("Offer")
    /\ IF priorityIsFull(priority)
       THEN /\ last' = Event("Offer", elem, "return", FALSE, ZeroVal, "ErrQueueIsFull", <<>>)
            /\ UNCHANGED priority
       ELSE /\ priority' = [priority EXCEPT !.elements = heapPush(@, elem)]
            /\ last' = Event("Offer", elem, "return", FALSE, ZeroVal, "nil", <<>>)
    /\ UNCHANGED <<readers, pc, local, iteratorCh, panicked, notPriority>>

\* Reset without the make: copy fills the slice as long as it is.
priorityResetNoMake(pq) ==
    [pq EXCEPT !.elements.elems =
        [i \in 1..(IF Len(@) < Len(pq.initialElements) THEN Len(@) ELSE Len(pq.initialElements))
           |-> pq.initialElements[i]]]

\* The body of Reset, priority.go 158-166: the slice is cut or made anew to
\* the length of initialElements, then copy fills it.
priorityReset(pq) ==
    [pq EXCEPT !.elements.elems = [i \in 1..Len(pq.initialElements) |-> pq.initialElements[i]]]

\* Reset(), priority.go 154-167.
PriorityReset(p) ==
    /\ priority.built /\ CanCall(p) /\ TotalCalls < MaxPriorityOps /\ CanLock
    /\ Called("Reset")
    /\ priority' = priorityReset(priority)
    /\ last' = Event("Reset", ZeroVal, "return", FALSE, ZeroVal, "nil", <<>>)
    /\ UNCHANGED <<readers, pc, local, iteratorCh, panicked, notPriority>>

\* Get(), priority.go 173-185.
PriorityGet(p) ==
    /\ priority.built /\ CanCall(p) /\ TotalCalls < MaxPriorityOps /\ CanLock
    /\ Called("Get")
    /\ IF Len(priority.elements.elems) = 0
       THEN /\ last' = Event("Get", ZeroVal, "return", FALSE, ZeroVal,
                             "ErrNoElementsAvailable", <<>>)
            /\ UNCHANGED priority
       ELSE /\ priority' = [priority EXCEPT !.elements = heapPop(@).h]
            /\ last' = Event("Get", ZeroVal, "return", FALSE, heapPop(priority.elements).v,
                             "nil", <<>>)
    /\ UNCHANGED <<readers, pc, local, iteratorCh, panicked, notPriority>>

\* Clear(), priority.go 188-205.
PriorityClear(p) ==
    /\ priority.built /\ CanCall(p) /\ TotalCalls < MaxPriorityOps /\ CanLock
    /\ Called("Clear")
    /\ priority' = [priority EXCEPT !.elements.elems = <<>>]
    /\ last' = Event("Clear", ZeroVal, "return", FALSE, ZeroVal, "nil",
                     priorityDrain(priority.elements))
    /\ UNCHANGED <<readers, pc, local, iteratorCh, panicked, notPriority>>

\* Peek(), priority.go 255-264: under the read lock.
PriorityPeek(p) ==
    /\ priority.built /\ CanCall(p) /\ TotalCalls < MaxPriorityOps
    /\ Called("Peek")
    /\ last' = IF Len(priority.elements.elems) = 0
               THEN Event("Peek", ZeroVal, "return", FALSE, ZeroVal,
                          "ErrNoElementsAvailable", <<>>)
               ELSE Event("Peek", ZeroVal, "return", FALSE, priority.elements.elems[1],
                          "nil", <<>>)
    /\ UNCHANGED <<priority, readers, pc, local, iteratorCh, panicked, notPriority>>

\* Contains(a), priority.go 241-252: under the read lock, which a running
\* Iterator shares while heap.Pop writes the heap.  While no Iterator runs
\* nothing writes the heap before Contains returns (a writer waits for the read
\* lock, and an Iterator that begins meanwhile begins by reading), so the call
\* is one step, PriorityContains; beside a running Iterator each read of the
\* heap is a step of its own, PriorityContainsRange and PriorityContainsElem.

\* Some goroutine is inside Iterator.
PriorityIterating == \E q \in Procs : q \in readers /\ pc[q] # "Contains.elem"

\* The loop of Contains over a slice nobody writes, priority.go 245-251.
priorityContains(es, a) == \E i \in DOMAIN es : es[i] = a

\* Contains(a) while no Iterator runs.
PriorityContains(p, a) ==
    /\ priority.built /\ CanCall(p) /\ TotalCalls < MaxPriorityOps
    /\ ~PriorityIterating
    /\ Called("Contains")
    /\ last' = Event("Contains", a, "return", FALSE,
                     priorityContains(priority.elements.elems, a), "nil", <<>>)
    /\ UNCHANGED <<priority, readers, pc, local, iteratorCh, panicked, notPriority>>

\* Contains(a) beside a running Iterator: pq.lock.RLock() and
\* `for i := range pq.elements.elems`, priority.go 242-245.  The length is taken
\* once; hdr holds that length and the index i.
PriorityContainsRange(p, a) ==
    /\ priority.built /\ CanCall(p) /\ TotalCalls < MaxPriorityOps
    /\ PriorityIterating
    /\ Called("Contains")
    /\ IF Len(priority.elements.elems) = 0
       THEN /\ last' = Event("Contains", a, "return", FALSE, FALSE, "nil", <<>>)
            /\ UNCHANGED <<readers, pc, local>>
       ELSE /\ readers' = readers \cup {p}
            /\ pc' = [pc EXCEPT ![p] = "Contains.elem"]
            /\ local' = [local EXCEPT ![p].elem = a,
                                      ![p].hdr = <<Len(priority.elements.elems), 0>>]
            /\ UNCHANGED last
    /\ UNCHANGED <<priority, iteratorCh, panicked, notPriority>>

\* if pq.elements.elems[i] == a { return true }, priority.go 246-248, and the
\* end of the loop, 251: the slice is read anew at each index, and an index
\* beyond its length is a run-time panic.
PriorityContainsElem(p) ==
    /\ priority.built /\ panicked = "" /\ pc[p] = "Contains.elem"
    /\ LET n == local[p].hdr[1]
           i == local[p].hdr[2]
           return(found) ==
               /\ last' = Event("Contains", local[p].elem, "return", FALSE, found, "nil", <<>>)
               /\ readers' = readers \ {p}
               /\ pc' = [pc EXCEPT ![p] = "idle"]
               /\ local' = [local EXCEPT ![p].elem = ZeroVal, ![p].hdr = <<>>]
               /\ UNCHANGED panicked
       IN  IF i >= Len(priority.elements.elems)
           THEN panicked' = "Contains" /\ UNCHANGED <<readers, pc, local, last>>
           ELSE IF priority.elements.elems[i + 1] = local[p].elem
                THEN return(TRUE)
                ELSE IF i + 1 = n
                     THEN return(FALSE)
                     ELSE /\ local' = [local EXCEPT ![p].hdr = <<n, i + 1>>]
                          /\ UNCHANGED <<readers, pc, last, panicked>>
    /\ UNCHANGED <<priority, iteratorCh, calls, notPriority>>

\* Iterator(), priority.go 209-228: under the read lock only, while heap.Pop
\* writes the heap; the steps of heap.Pop are steps of their own.

\* pq.lock.RLock() and make(chan T, pq.elements.Len()), priority.go 210-214.
PriorityIterator(p) ==
    /\ priority.built /\ CanCall(p) /\ TotalCalls < MaxPriorityOps /\ calls["Iterator"] < MaxIterators
    /\ Called("Iterator")
    /\ readers' = readers \cup {p}
    /\ pc' = [pc EXCEPT ![p] = "Iterator"]
    /\ iteratorCh' = [iteratorCh EXCEPT ![p] = <<>>]
    /\ local' = [local EXCEPT ![p].chcap = Len(priority.elements.elems)]
    /\ UNCHANGED <<priority, panicked, last, notPriority>>

\* The loop test pq.elements.Len() > 0, priority.go 217; when it fails the
\* channel is closed and the read lock released.
PriorityIteratorLen(p) ==
    /\ priority.built /\ panicked = "" /\ pc[p] = "Iterator"
    /\ IF Len(priority.elements.elems) = 0
       THEN /\ readers' = readers \ {p}
            /\ pc' = [pc EXCEPT ![p] = "idle"]
            /\ last' = Event("Iterator", ZeroVal, "return", FALSE, ZeroVal, "nil", iteratorCh[p])
            /\ iteratorCh' = [iteratorCh EXCEPT ![p] = <<>>]
            /\ local' = [local EXCEPT ![p].chcap = 0]
       ELSE /\ pc' = [pc EXCEPT ![p] = "Iterator.swap"]
            /\ UNCHANGED <<readers, last, iteratorCh, local>>
    /\ UNCHANGED <<priority, panicked, calls, notPriority>>

\* heap.Pop: n := h.Len() - 1; h.Swap(0, n).
PriorityIteratorSwap(p) ==
    /\ priority.built /\ panicked = "" /\ pc[p] = "Iterator.swap"
    /\ IF Len(priority.elements.elems) = 0
       THEN panicked' = "Iterator" /\ UNCHANGED <<priority, pc, local>>
       ELSE /\ priority' = [priority EXCEPT
                              !.elements = Swap(@, 0, Len(priority.elements.elems) - 1)]
            /\ local' = [local EXCEPT ![p].hdr = <<Len(priority.elements.elems) - 1>>]
            /\ pc' = [pc EXCEPT ![p] = "Iterator.down"]
            /\ UNCHANGED panicked
    /\ UNCHANGED <<readers, iteratorCh, calls, last, notPriority>>

\* heap.Pop: down(h, 0, n).
PriorityIteratorDown(p) ==
    /\ priority.built /\ panicked = "" /\ pc[p] = "Iterator.down"
    /\ IF downOutOfRange(priority.elements, 0, local[p].hdr[1])
       THEN panicked' = "Iterator" /\ UNCHANGED <<priority, pc, local>>
       ELSE /\ priority' = [priority EXCEPT !.elements = down(@, 0, local[p].hdr[1])]
            /\ local' = [local EXCEPT ![p].hdr = <<>>]
            /\ pc' = [pc EXCEPT ![p] = "Iterator.pop"]
            /\ UNCHANGED panicked
    /\ UNCHANGED <<readers, iteratorCh, calls, last, notPriority>>

\* priorityHeap.Pop, priority.go 46-54: the last element is taken off.
PriorityIteratorPop(p) ==
    /\ priority.built /\ panicked = "" /\ pc[p] = "Iterator.pop"
    /\ IF Len(priority.elements.elems) = 0
       THEN panicked' = "Iterator" /\ UNCHANGED <<priority, pc, local>>
       ELSE /\ local' = [local EXCEPT
                           ![p].elem = priority.elements.elems[Len(priority.elements.elems)]]
            /\ priority' = [priority EXCEPT !.elements.elems =
                              SubSeq(@, 1, Len(priority.elements.elems) - 1)]
            /\ pc' = [pc EXCEPT ![p] = "Iterator.send"]
            /\ UNCHANGED panicked
    /\ UNCHANGED <<readers, iteratorCh, calls, last, notPriority>>

\* iteratorCh <- elem, priority.go 222: the send waits while the buffer is full.
PriorityIteratorSend(p) ==
    /\ priority.built /\ panicked = "" /\ pc[p] = "Iterator.send"
    /\ Len(iteratorCh[p]) < local[p].chcap
    /\ iteratorCh' = [iteratorCh EXCEPT ![p] = Append(@, local[p].elem)]
    /\ local' = [local EXCEPT ![p].elem = ZeroVal]
    /\ pc' = [pc EXCEPT ![p] = "Iterator"]
    /\ UNCHANGED <<priority, readers, panicked, calls, last, notPriority>>

PriorityNext ==
    \/ \E p \in Procs, elem \in PriorityElems : PriorityOffer(p, elem)
    \/ \E p \in Procs : PriorityReset(p)
    \/ \E p \in Procs : PriorityGet(p)
    \/ \E p \in Procs : PriorityClear(p)
    \/ \E p \in Procs : PriorityPeek(p)
    \/ \E p \in Procs, a \in PriorityElems : PriorityContains(p, a)
    \/ \E p \in Procs : PriorityIterator(p)
    \/ \E p \in Procs : PriorityIteratorLen(p)
    \/ \E p \in Procs : PriorityIteratorSwap(p)
    \/ \E p \in Procs : PriorityIteratorDown(p)
    \/ \E p \in Procs : PriorityIteratorPop(p)
    \/ \E p \in Procs : PriorityIteratorSend(p)

SpecPriority == PriorityInit /\ [][PriorityNext]_vars

\* Contains beside an Iterator: the Priority queue with one Iterator at a time
\* and Contains called also while it runs.
PriorityIteratorAlone(p) == ~PriorityIterating /\ PriorityIterator(p)

PriorityContainsNext ==
    \/ \E p \in Procs, elem \in PriorityElems : PriorityOffer(p, elem)
    \/ \E p \in Procs : PriorityGet(p)
    \/ \E p \in Procs : PriorityReset(p)
    \/ \E p \in Procs, a \in PriorityElems : PriorityContains(p, a)
    \/ \E p \in Procs, a \in PriorityElems : PriorityContainsRange(p, a)
    \/ \E p \in Procs : PriorityContainsElem(p)
    \/ \E p \in Procs : PriorityIteratorAlone(p)
    \/ \E p \in Procs : PriorityIteratorLen(p)
    \/ \E p \in Procs : PriorityIteratorSwap(p)
    \/ \E p \in Procs : PriorityIteratorDown(p)
    \/ \E p \in Procs : PriorityIteratorPop(p)
    \/ \E p \in Procs : PriorityIteratorSend(p)

SpecPriorityContains == PriorityInit /\ [][PriorityContainsNext]_vars

----------------------------------------------------------------------------
\* What the properties of the Priority queue speak of.

\* The live elements of the Priority queue, as a set of indexes into the heap.
PriorityLive == DOMAIN priority.elements.elems

\* This step is a whole call of Get on the Priority queue that returns an element.
PriorityGot ==
    /\ priority.built
    /\ calls'["Get"] = calls["Get"] + 1
    /\ last'.err = "nil"

\* C15: a Get on a Priority queue returns an element that no live element is
\* less than, so Gets that follow one another return elements in
\* non-decreasing order under less, and a Get that follows a Peek returns
\* the element Peek returned.
PriorityOrder ==
    [][PriorityGot
       => /\ \A i \in PriorityLive :
               ~lessFunc(priority.elements.lessFunc, priority.elements.elems[i], last'.ret)
          /\ (last.op = "Get" /\ last.err = "nil")
               => ~lessFunc(priority.elements.lessFunc, last'.ret, last.ret)
          /\ (last.op = "Peek" /\ last.err = "nil") => last'.ret = last.ret]_vars

\* Two Gets in a row on a heap an Offer has grown, which still holds elements.
PriorityTwoGetsAfterOffer ==
    /\ priority.built /\ panicked = ""
    /\ last.op = "Get" /\ last.err = "nil"
    /\ calls["Get"] >= 2 /\ calls["Offer"] >= 1
    /\ Len(priority.elements.elems) >= 2

\* C16: the backing array of a Priority queue is a heap under less (no element
\* is less than its parent), so that no live element is less than the one at
\* index 0, which Peek returns.
PriorityHeapInvariant ==
    priority.built =>
        /\ \A i \in 1..(Len(priority.elements.elems) - 1) :
             ~lessFunc(priority.elements.lessFunc, priority.elements.elems[i + 1],
                       priority.elements.elems[((i - 1) \div 2) + 1])
        /\ \A i \in PriorityLive :
             ~lessFunc(priority.elements.lessFunc, priority.elements.elems[i],
                       priority.elements.elems[1])

----------------------------------------------------------------------------
\* The Blocking queue and the slice of its caller (blocking.go), with Go's
\* slices as they are: a slice is a window lo..hi on a backing array, and
\* NewBlocking stores the caller's slice itself in bq.elems.  backing.array
\* is the caller's slice (its length is its capacity), backing.shared says
\* that bq.elems is still a window on it, backing.elems is bq.elems once it
\* has an array of its own.

\* NewBlocking(elems, WithCapacity(cap)), blocking.go 31-64: initialElems is a
\* copy, bq.elems is elems, cut to elems[:capacity].
NewBlockingOnSlice(given, cap) ==
    [built |-> TRUE,
     array |-> given,
     shared |-> TRUE,
     lo |-> 0,
     hi |-> IF cap # <<>> /\ Len(given) > cap[1] THEN cap[1] ELSE Len(given),
     elems |-> <<>>,
     initialElems |-> given,
     capacity |-> cap]

\* bq.elems as the queue reads it.
bqElems(b) == IF b.shared THEN SubSeq(b.array, b.lo + 1, b.hi) ELSE b.elems

\* append(bq.elems, elem), blocking.go 93: in place while the backing array
\* has room behind the window, into a new array otherwise.
appendElem(b, elem) ==
    IF b.shared /\ b.hi < Len(b.array)
    THEN [b EXCEPT !.array[b.hi + 1] = elem, !.hi = @ + 1]
    ELSE [b EXCEPT !.shared = FALSE, !.elems = Append(bqElems(b), elem)]

\* bq.elems = bq.elems[1:], blocking.go 271.
sliceFromOne(b) == IF b.shared THEN [b EXCEPT !.lo = @ + 1] ELSE [b EXCEPT !.elems = Tail(@)]

\* bq.elems = bq.elems[:0], blocking.go 151.
sliceToZero(b) == IF b.shared THEN [b EXCEPT !.hi = b.lo] ELSE [b EXCEPT !.elems = <<>>]

CallerSliceInit ==
    /\ \E given \in SeqsUpTo(Elems, MaxInit), cap \in {<<>>} \cup {<<c>> : c \in 0..MaxCap} :
         backing = NewBlockingOnSlice(given, cap)
    /\ NoBlocking /\ Goroutines
    /\ last = Event("NewBlocking", ZeroVal, "return", FALSE, ZeroVal, "nil", <<>>)
    /\ circular = NotBuilt /\ priority = NotBuilt /\ linked = NotBuilt

\* What a step of this queue leaves alone.
notBacking == <<blocking, circular, priority, linked, readers, pc, local, iteratorCh, panicked>>

\* Offer(elem), blocking.go 85-98.
SliceOffer(p, elem) ==
    /\ backing.built /\ CanCall(p)
    /\ Called("Offer")
    /\ IF isFull(bqElems(backing), backing.capacity)
       THEN /\ last' = Event("Offer", elem, "return", FALSE, ZeroVal, "ErrQueueIsFull", <<>>)
            /\ UNCHANGED backing
       ELSE /\ backing' = appendElem(backing, elem)
            /\ last' = Event("Offer", elem, "return", FALSE, ZeroVal, "nil", <<>>)
    /\ UNCHANGED notBacking

\* Get(), blocking.go 135-140 and 265-276.
SliceGet(p) ==
    /\ backing.built /\ CanCall(p)
    /\ Called("Get")
    /\ IF isEmpty(bqElems(backing))
       THEN /\ last' = Event("Get", ZeroVal, "return", FALSE, ZeroVal,
                             "ErrNoElementsAvailable", <<>>)
            /\ UNCHANGED backing
       ELSE /\ backing' = sliceFromOne(backing)
            /\ last' = Event("Get", ZeroVal, "return", FALSE, Head(bqElems(backing)), "nil", <<>>)
    /\ UNCHANGED notBacking

\* Clear(), blocking.go 143-154.
SliceClear(p) ==
    /\ backing.built /\ CanCall(p)
    /\ Called("Clear")
    /\ backing' = sliceToZero(backing)
    /\ last' = Event("Clear", ZeroVal, "return", FALSE, ZeroVal, "nil", bqElems(backing))
    /\ UNCHANGED notBacking

\* Reset(), blocking.go 101-110: a new array, filled from initialElems.
SliceReset(p) ==
    /\ backing.built /\ CanCall(p)
    /\ Called("Reset")
    /\ backing' = [backing EXCEPT !.shared = FALSE, !.elems = backing.initialElems]
    /\ last' = Event("Reset", ZeroVal, "return", FALSE, ZeroVal, "nil", <<>>)
    /\ UNCHANGED notBacking

\* Peek(), blocking.go 185-194.
SlicePeek(p) ==
    /\ backing.built /\ CanCall(p)
    /\ Called("Peek")
    /\ last' = IF isEmpty(bqElems(backing))
               THEN Event("Peek", ZeroVal, "return", FALSE, ZeroVal,
                          "ErrNoElementsAvailable", <<>>)
               ELSE Event("Peek", ZeroVal, "return", FALSE, Head(bqElems(backing)), "nil", <<>>)
    /\ UNCHANGED <<backing, notBacking>>

\* The caller assigns to an element of the slice it gave to NewBlocking.
CallerWrites(i, elem) ==
    /\ backing.built /\ panicked = ""
    /\ i \in DOMAIN backing.array /\ backing.array[i] # elem
    /\ backing' = [backing EXCEPT !.array[i] = elem]
    /\ UNCHANGED <<calls, last, notBacking>>

CallerSliceNext ==
    \/ \E p \in Procs, elem \in Elems : SliceOffer(p, elem)
    \/ \E p \in Procs : SliceGet(p)
    \/ \E p \in Procs : SliceClear(p)
    \/ \E p \in Procs : SliceReset(p)
    \/ \E p \in Procs : SlicePeek(p)
    \/ \E i \in 1..MaxInit, elem \in Elems : CallerWrites(i, elem)

SpecCallerSlice == CallerSliceInit /\ [][CallerSliceNext]_vars

\* C17: the queue has a copy of the caller's slice: no operation of the queue
\* writes into the caller's slice, and a write of the caller to its slice
\* changes neither the live elements nor the snapshot Reset restores.
CallerSliceIsCopied ==
    [][/\ calls' # calls => backing'.array = backing.array
       /\ (calls' = calls /\ backing'.array # backing.array)
            => /\ bqElems(backing') = bqElems(backing)
               /\ backing'.initialElems = backing.initialElems]_vars

----------------------------------------------------------------------------
\* Iterators of the Blocking queue and the lock.

\* The goroutines inside Iterator.
InIterator ==
    {p \in Procs : pc[p] \in {"Iterator", "Iterator.elem", "Iterator.load", "Iterator.store",
                              "Iterator.send"}}

\* What the Iterators on their way have sent to their channels, one after another.
RECURSIVE SentUpTo(_)
SentUpTo(n) == IF n = 0 THEN <<>> ELSE SentUpTo(n - 1) \o iteratorCh[n]
Sent == SentUpTo(MaxProcs)

\* C18: Iterator holds the lock of the Blocking queue exclusively: no two
\* goroutines are inside Iterator at once, and (while nothing has been put
\* back by Reset) the Iterators on their way have not sent an element more
\* often than it was put into the queue.
IteratorHoldsLockExclusively ==
    /\ Cardinality(InIterator) <= 1
    /\ calls["Reset"] = 0 => SubBag(Sent, Constructed \o offered)

\* C20: an Iterator of the Blocking queue that returns has delivered exactly
\* the elements that were live when it was called, in head-to-tail order, and
\* leaves the queue empty.
IteratorDeliversLive ==
    [][\A p \in Procs :
         (pc[p] = "Iterator" /\ pc'[p] = "idle")
           => last'.removed = local[p].live /\ elems' = <<>>]_vars

----------------------------------------------------------------------------
\* C19: a Clear on the Circular queue returns, and it returns the elements
\* that Gets, one after another, would have returned, leaves the queue empty
\* (size 0, so that Get returns ErrNoElementsAvailable) and leaves the
\* snapshot alone: a Reset after it gives the state a Reset before it gave.
ClearReturnsLiveAndEmpties ==
    [][(circular.built /\ calls'["Clear"] = calls["Clear"] + 1)
       => /\ panicked' = ""
          /\ last'.removed = circularDrain(circular)
          /\ circular'.size = 0
          /\ circularGet(circular').err = "ErrNoElementsAvailable"
          /\ circularReset(circular') = circularReset(circular)]_vars

----------------------------------------------------------------------------
\* The Linked queue (linked.go): nodes with a value and a next pointer, the
\* pointers head and tail and the count size, guarded by one sync.RWMutex.
\* linked.nodes is the heap: the node allocated n-th is linked.nodes[n], and
\* Nil is the nil pointer.  A node no pointer leads to any more stays in the
\* heap and is never looked at again.

Nil == 0

\* offer(value) putting the new node in front of the head.
linkedOfferFront(q, value) ==
    LET newNode == Cardinality(DOMAIN q.nodes) + 1
    IN  [q EXCEPT !.nodes = [n \in DOMAIN q.nodes \cup {newNode} |->
                                IF n = newNode THEN [value |-> value, next |-> q.head]
                                ELSE q.nodes[n]],
                  !.head = newNode,
                  !.tail = IF q.size = 0 THEN newNode ELSE @,
                  !.size = @ + 1]

\* offer(value), linked.go 227-240.  Called only where lq.tail is a node or
\* the queue is empty.
linkedOffer(q, value) ==
    LET newNode == Cardinality(DOMAIN q.nodes) + 1
    IN  [q EXCEPT !.nodes = [n \in DOMAIN q.nodes \cup {newNode} |->
                                IF n = newNode THEN [value |-> value, next |-> Nil]
                                ELSE IF q.size # 0 /\ n = q.tail
                                     THEN [q.nodes[n] EXCEPT !.next = newNode]
                                     ELSE q.nodes[n]],
                  !.head = IF q.size = 0 THEN newNode ELSE @,
                  !.tail = newNode,
                  !.size = @ + 1]

\* for _, element := range elements { lq.offer(element) }, linked.go 191-193
\* and 251-253.
RECURSIVE linkedOfferEach(_, _)
linkedOfferEach(q, elements) ==
    IF elements = <<>>
    THEN q
    ELSE linkedOfferEach(linkedOffer(q, Head(elements)), Tail(elements))

\* NewLinked(elements), linked.go 181-196.
NewLinked(elements) ==
    linkedOfferEach([built |-> TRUE,
                     nodes |-> <<>>,
                     head |-> Nil,
                     tail |-> Nil,
                     size |-> 0,
                     initialElements |-> elements],
                    elements)

\* Get leaving tail as it is when the last element is removed.
linkedGetKeepTail(q) ==
    IF q.size = 0
    THEN [q |-> q, v |-> ZeroVal, err |-> "ErrNoElementsAvailable"]
    ELSE [q |-> [q EXCEPT !.head = q.nodes[q.head].next, !.size = @ - 1],
          v |-> q.nodes[q.head].value, err |-> "nil"]

\* The body of Get, linked.go 203-215: the queue it leaves, the element and
\* the error.  Called only where lq.head is a node or the queue is empty.
linkedGet(q) ==
    IF q.size = 0
    THEN [q |-> q, v |-> ZeroVal, err |-> "ErrNoElementsAvailable"]
    ELSE [q |-> [q EXCEPT !.head = q.nodes[q.head].next,
                          !.size = @ - 1,
                          !.tail = IF q.size - 1 = 0 THEN Nil ELSE @],
          v |-> q.nodes[q.head].value, err |-> "nil"]

\* Reset offering the initial elements to the list as it is.
linkedResetKeepList(q) == linkedOfferEach(q, q.initialElements)

\* The body of Reset, linked.go 247-253.
linkedReset(q) ==
    linkedOfferEach([q EXCEPT !.head = Nil, !.tail = Nil, !.size = 0], q.initialElements)

\* The nodes from current along the next pointers, at most fuel of them.
RECURSIVE linkedWalk(_, _, _)
linkedWalk(q, current, fuel) ==
    IF current = Nil \/ fuel = 0
    THEN <<>>
    ELSE <<current>> \o linkedWalk(q, q.nodes[current].next, fuel - 1)

\* The loop of Clear, linked.go 331-336: the values from lq.head to nil.
linkedElements(q) ==
    [i \in 1..Len(linkedWalk(q, q.head, Cardinality(DOMAIN q.nodes))) |->
        q.nodes[linkedWalk(q, q.head, Cardinality(DOMAIN q.nodes))[i]].value]


LinkedInit ==
    /\ \E elements \in SeqsUpTo(Elems, MaxInit) : linked = NewLinked(elements)
    /\ NoBlocking /\ Goroutines
    /\ last = Event("NewLinked", ZeroVal, "return", FALSE, ZeroVal, "nil", <<>>)
    /\ circular = NotBuilt /\ priority = NotBuilt /\ backing = NotBuilt

\* What a step on the Linked queue leaves alone.
notLinked == <<elems, initialElems, capacity, notEmptyCond, notFullCond, circular, priority,
               backing, readers, pc, local, iteratorCh>>

\* A new call on the Linked queue, by the first idle goroutine.
LinkedCall(p, op) ==
    /\ linked.built /\ panicked = "" /\ Idle(p) /\ TotalCalls < MaxLinkedOps
    /\ \A q \in Procs : Idle(q) => p <= q
    /\ Called(op)

\* Offer(value), linked.go 219-224.  lq.tail.next on a nil tail panics.
LinkedOffer(p, value) ==
    /\ LinkedCall(p, "Offer") /\ CanLock
    /\ IF linked.size # 0 /\ linked.tail = Nil
       THEN panicked' = "Offer" /\ UNCHANGED <<linked, last, offered>>
       ELSE /\ linked' = linkedOffer(linked, value)
            /\ offered' = Append(offered, value)
            /\ last' = Event("Offer", value, "return", FALSE, ZeroVal, "nil", <<>>)
            /\ UNCHANGED panicked
    /\ UNCHANGED <<got, notLinked>>

\* Get(), linked.go 199-216.  lq.head.value on a nil head panics.
LinkedGet(p) ==
    /\ LinkedCall(p, "Get") /\ CanLock
    /\ IF linked.size # 0 /\ linked.head = Nil
       THEN panicked' = "Get" /\ UNCHANGED <<linked, last, got>>
       ELSE /\ linked' = linkedGet(linked).q
            /\ got' = IF linkedGet(linked).err = "nil"
                      THEN Append(got, linkedGet(linked).v) ELSE got
            /\ last' = Event("Get", ZeroVal, "return", FALSE, linkedGet(linked).v,
                             linkedGet(linked).err, <<>>)
            /\ UNCHANGED panicked
    /\ UNCHANGED <<offered, notLinked>>

\* Reset(), linked.go 243-254.
LinkedReset(p) ==
    /\ LinkedCall(p, "Reset") /\ CanLock
    /\ linked' = linkedReset(linked)
    /\ last' = Event("Reset", ZeroVal, "return", FALSE, ZeroVal, "nil", <<>>)
    /\ UNCHANGED <<panicked, offered, got, notLinked>>

\* Clear(), linked.go 325-344.
LinkedClear(p) ==
    /\ LinkedCall(p, "Clear") /\ CanLock
    /\ linked' = [linked EXCEPT !.head = Nil, !.tail = Nil, !.size = 0]
    /\ last' = Event("Clear", ZeroVal, "return", FALSE, ZeroVal, "nil", linkedElements(linked))
    /\ UNCHANGED <<panicked, offered, got, notLinked>>

\* Peek(), linked.go 274-283: under the read lock.
LinkedPeek(p) ==
    /\ LinkedCall(p, "Peek")
    /\ IF linked.size # 0 /\ linked.head = Nil
       THEN panicked' = "Peek" /\ UNCHANGED last
       ELSE /\ last' = IF linked.size = 0
                       THEN Event("Peek", ZeroVal, "return", FALSE, ZeroVal,
                                  "ErrNoElementsAvailable", <<>>)
                       ELSE Event("Peek", ZeroVal, "return", FALSE,
                                  linked.nodes[linked.head].value, "nil", <<>>)
            /\ UNCHANGED panicked
    /\ UNCHANGED <<linked, offered, got, notLinked>>

\* Contains(value), linked.go 257-271: under the read lock.
LinkedContains(p, value) ==
    /\ LinkedCall(p, "Contains")
    /\ last' = Event("Contains", value, "return", FALSE,
                     \E i \in DOMAIN linkedElements(linked) : linkedElements(linked)[i] = value,
                     "nil", <<>>)
    /\ UNCHANGED <<linked, panicked, offered, got, notLinked>>

\* Iterator(), linked.go 308-322: Clear() under the write lock; what it
\* returned is then sent, element by element, by a goroutine that does not touch
\* the queue.
LinkedIterator(p) ==
    /\ LinkedCall(p, "Iterator") /\ CanLock
    /\ linked' = [linked EXCEPT !.head = Nil, !.tail = Nil, !.size = 0]
    /\ last' = Event("Iterator", ZeroVal, "return", FALSE, ZeroVal, "nil",
                     linkedElements(linked))
    /\ UNCHANGED <<panicked, offered, got, notLinked>>

LinkedNext ==
    \/ \E p \in Procs, value \in Elems : LinkedOffer(p, value)
    \/ \E p \in Procs : LinkedGet(p)
    \/ \E p \in Procs : LinkedReset(p)
    \/ \E p \in Procs : LinkedClear(p)
    \/ \E p \in Procs : LinkedPeek(p)
    \/ \E p \in Procs, value \in Elems : LinkedContains(p, value)
    \/ \E p \in Procs : LinkedIterator(p)

SpecLinked == LinkedInit /\ [][LinkedNext]_vars


----------------------------------------------------------------------------
\* What the properties of the Linked queue speak of.

\* The elements from head to tail: what Clear would return now.
LinkedLive == linkedElements(linked)

\* This step is a whole call of op on the Linked queue.
LinkedCalled(op) == linked.built /\ calls'[op] = calls[op] + 1

\* C22: with no Reset, Clear or Iterator on a Linked queue, what the Gets have
\* returned, followed by what is in the queue, is the initial elements
\* followed by the elements offered, in insertion order; and every Offer
\* returns nil and makes Size() one larger.
LinkedFifoOrder ==
    /\ []((linked.built /\ Used \cap {"Reset", "Clear", "Iterator"} = {})
            => got \o LinkedLive = linked.initialElements \o offered)
    /\ [][LinkedCalled("Offer")
            => /\ panicked' = ""
               /\ last'.err = "nil"
               /\ linked'.size = linked.size + 1]_vars

\* Two initial elements and then two different offered ones have all been
\* returned by Gets that followed the Offers.
LinkedFourReturnedInOrder ==
    /\ linked.built /\ panicked = ""
    /\ Used = {"Offer", "Get"} /\ last.op = "Get" /\ last.err = "nil"
    /\ Len(linked.initialElements) = 2 /\ Len(offered) = 2 /\ offered[1] # offered[2]
    /\ Len(got) = 4 /\ linked.size = 0


\* The nodes from head along the next pointers; one more step is allowed than
\* there are nodes, so that a walk that ends has ended at nil.
LinkedPath == linkedWalk(linked, linked.head, Cardinality(DOMAIN linked.nodes) + 1)

\* C23: in every state of a Linked queue size = 0 exactly when head is nil
\* and exactly when tail is nil, and the next pointers lead from head through
\* exactly size nodes, the last of which is tail, whose next is nil.
LinkedStructure ==
    linked.built =>
        /\ (linked.size = 0) <=> (linked.head = Nil)
        /\ (linked.head = Nil) <=> (linked.tail = Nil)
        /\ Len(LinkedPath) = linked.size
        /\ linked.size # 0 =>
             /\ LinkedPath[linked.size] = linked.tail
             /\ linked.nodes[linked.tail].next = Nil

\* A Get has removed the last element of a list that Offers had built after
\* a Clear, a Reset or an Iterator had emptied or rebuilt it.
LinkedEmptiedByGet ==
    /\ linked.built /\ panicked = ""
    /\ last.op = "Get" /\ last.err = "nil" /\ linked.size = 0
    /\ calls["Offer"] >= 2 /\ Used \cap {"Clear", "Reset", "Iterator"} # {}


\* C24: a Reset on a Linked queue leaves, whatever the list was, the elements
\* given to NewLinked, in their order, and as many as size says; a Clear
\* right after it returns them; a second Reset right after it changes neither
\* elements nor size; and no operation changes the snapshot.
LinkedResetRestoresInitial ==
    [][/\ LinkedCalled("Reset")
            => /\ panicked' = ""
               /\ linkedElements(linked') = linked.initialElements
               /\ linked'.size = Len(linked.initialElements)
       /\ (LinkedCalled("Clear") /\ last.op = "Reset")
            => last'.removed = linked.initialElements
       /\ (LinkedCalled("Reset") /\ last.op = "Reset")
            => /\ linkedElements(linked') = LinkedLive
               /\ linked'.size = linked.size
       /\ linked.built => linked'.initialElements = linked.initialElements]_vars

\* After an Offer and a Get, two Resets and then a Clear that has returned the
\* two different initial elements.
LinkedClearedAfterResets ==
    /\ linked.built /\ panicked = ""
    /\ last.op = "Clear" /\ last.removed = linked.initialElements
    /\ Len(linked.initialElements) = 2
    /\ linked.initialElements[1] # linked.initialElements[2]
    /\ calls["Reset"] = 2 /\ calls["Offer"] = 1 /\ calls["Get"] = 1 /\ calls["Clear"] = 1


----------------------------------------------------------------------------
\* This step is a whole call of op on the Priority queue.
PriorityCalled(op) == priority.built /\ calls'[op] = calls[op] + 1

\* What Gets, one after another, would return from the heap in elems.
PriorityDrained(pq, elems0) == priorityDrain([elems |-> elems0, lessFunc |-> pq.elements.lessFunc])

\* C25: the snapshot of a Priority queue is the heap NewPriority built and is
\* never written; a Reset, whether the queue holds more or fewer elements than
\* the snapshot, leaves Size() the length of the snapshot and a heap that Gets
\* drain in the order they would have drained the queue right after NewPriority.
PriorityResetRestoresSnapshot ==
    /\ []((priority.built /\ TotalCalls = 0)
            => priority.elements.elems = priority.initialElements)
    /\ [][/\ priority.built => priority'.initialElements = priority.initialElements
          /\ PriorityCalled("Reset")
               => /\ panicked' = ""
                  /\ Len(priority'.elements.elems) = Len(priority.initialElements)
                  /\ PriorityDrained(priority, priority'.elements.elems)
                       = PriorityDrained(priority, priority.initialElements)]_vars

\* A Get, a Reset of the shorter heap, and a Get that has returned the first
\* element of the snapshot again.
PriorityGetAfterReset ==
    /\ priority.built /\ panicked = ""
    /\ calls["Get"] = 2 /\ calls["Reset"] = 1 /\ last.op = "Get" /\ last.err = "nil"
    /\ Len(priority.initialElements) >= 2
    /\ Len(priority.elements.elems) = Len(priority.initialElements) - 1
    /\ last.ret = priority.initialElements[1]


\* C26: an Offer on a Priority queue that has a capacity and holds at least
\* as many elements returns ErrQueueIsFull and leaves the queue as it was;
\* any other Offer returns nil and makes Size() one larger.
PriorityOfferRejectsWhenFull ==
    [][PriorityCalled("Offer")
         => /\ panicked' = ""
            /\ IF /\ priority.capacity # <<>>
                  /\ Len(priority.elements.elems) >= priority.capacity[1]
               THEN last'.err = "ErrQueueIsFull" /\ priority' = priority
               ELSE /\ last'.err = "nil"
                    /\ Len(priority'.elements.elems) = Len(priority.elements.elems) + 1]_vars

\* On a queue of capacity 2 built with one element, one Offer was accepted
\* and the next one rejected.
PriorityOfferRejected ==
    /\ priority.built /\ panicked = ""
    /\ last.op = "Offer" /\ last.err = "ErrQueueIsFull" /\ calls["Offer"] = 2
    /\ priority.capacity = <<2>> /\ Len(priority.initialElements) = 1
    /\ Len(priority.elements.elems) = 2


\* How often e occurs in s, for the elements of a Priority queue.
PriorityCount(s, e) == Cardinality({i \in DOMAIN s : s[i] = e})

\* C27: right after NewPriority with a capacity c below the number of elements
\* given, the queue holds c elements, each of them one of those given, no
\* element left out is less than one kept, and Gets drain the queue in the
\* order of less.
NewPriorityKeepsSmallest ==
    (/\ priority.built /\ TotalCalls = 0
     /\ priority.capacity # <<>> /\ priority.capacity[1] < Len(last.arg))
    => LET kept == priority.elements.elems
           drained == priorityDrain(priority.elements)
       IN  /\ Len(kept) = priority.capacity[1]
           /\ \A e \in PriorityElems : PriorityCount(kept, e) <= PriorityCount(last.arg, e)
           /\ \A x, y \in PriorityElems :
                (PriorityCount(kept, x) > 0 /\ PriorityCount(last.arg, y) > PriorityCount(kept, y))
                   => ~lessFunc(priority.elements.lessFunc, y, x)
           /\ \A i \in 1..(Len(drained) - 1) :
                ~lessFunc(priority.elements.lessFunc, drained[i + 1], drained[i])

\* NewPriority([3, 1, 2], ascending, WithCapacity(2)) has built a queue that
\* drains as [1, 2].
NewPriorityTrimmed ==
    /\ priority.built /\ TotalCalls = 0 /\ last.arg = <<3, 1, 2>>
    /\ priority.capacity = <<2>> /\ priority.elements.lessFunc = "ascending"
    /\ priorityDrain(priority.elements) = <<1, 2>>


----------------------------------------------------------------------------
\* NewBlocking was given more elements than the capacity it was given.
BlockingGivenTooMany == capacity # <<>> /\ Len(initialElems) > capacity[1]

\* C28: a Blocking queue built with a capacity c below the number of elements
\* given holds, right after NewBlocking, the first c of them in their order;
\* with only removals and insertions called, what Get and GetWait have
\* returned, followed by what is in the queue, is those c elements followed by
\* the elements inserted (the elements cut off never appear); and a GetWait
\* called once they are removed suspends its caller and returns nothing.
BlockingTruncatesToCapacity ==
    /\ [](BlockingGivenTooMany =>
            /\ TotalCalls = 0 =>
                 Len(elems) = capacity[1] /\ elems = SubSeq(initialElems, 1, capacity[1])
            /\ Used \subseteq {"Get", "GetWait", "Offer", "OfferWait"} =>
                 got \o elems = SubSeq(initialElems, 1, capacity[1]) \o offered)
    /\ [][(/\ BlockingGivenTooMany
           /\ Used \subseteq {"Get", "GetWait", "Offer", "OfferWait"}
           /\ calls'["GetWait"] = calls["GetWait"] + 1
           /\ Len(got) = capacity[1] /\ offered = <<>>)
          => Suspended("GetWait") /\ got' = got /\ elems' = elems]_vars

\* Built with two elements and capacity 1: a GetWait has returned the first
\* element, a second one was suspended and has returned the element that an
\* OfferWait then inserted.
BlockingTruncatedThenServed ==
    /\ capacity = <<1>> /\ Len(initialElems) = 2 /\ initialElems[1] # initialElems[2]
    /\ Used = {"GetWait", "OfferWait"} /\ calls["GetWait"] = 2 /\ calls["OfferWait"] = 1
    /\ Len(offered) = 1 /\ got = <<initialElems[1], offered[1]>>
    /\ last.op = "GetWait" /\ last.kind = "return" /\ last.woken


----------------------------------------------------------------------------
\* C29: right after NewCircular the ring has as many slots as the WithCapacity
\* option says if one was given (the last one if several were), as many as the
\* capacity parameter says otherwise; Size() is the smaller of the number of
\* elements given and the number of slots, and the live elements are the
\* first Size() of the elements given, in their order.
NewCircularOptionTakesPrecedence ==
    (circular.built /\ TotalCalls = 0)
    => LET given == last.arg.givenElems
           effective == IF last.arg.opts = <<>>
                        THEN last.arg.capacity
                        ELSE last.arg.opts[Len(last.arg.opts)]
       IN  /\ Len(circular.elems) = effective
           /\ circular.size = Min(Len(given), effective)
           /\ circular.head = 0
           /\ CircularLive = SubSeq(given, 1, circular.size)

\* NewCircular([a, b], 2, WithCapacity(1)) has built a ring of one slot that
\* holds a.
NewCircularOptionBelowParam ==
    /\ circular.built /\ TotalCalls = 0
    /\ last.arg.capacity = 2 /\ last.arg.opts = <<1>> /\ Len(last.arg.givenElems) = 2
    /\ last.arg.givenElems[1] # last.arg.givenElems[2]
    /\ circular.size = 1 /\ circular.elems = <<last.arg.givenElems[1]>>


\* C30: an Offer on a Circular queue with no slots that holds nothing
\* returns nil without a run-time panic and leaves Size() at 0.
CircularZeroCapacityOffer ==
    [][(/\ circular.built /\ panicked = ""
        /\ Len(circular.elems) = 0 /\ circular.size = 0
        /\ calls'["Offer"] = calls["Offer"] + 1)
       => /\ panicked' = ""
          /\ last'.op = "Offer" /\ last'.err = "nil"
          /\ circular'.size = 0]_vars


----------------------------------------------------------------------------
\* Peek() of the Blocking queue, blocking.go 185-194: under the read lock,
\* which an Iterator that writes bq.elems can hold at the same time, so the
\* test bq.isEmpty() and the read of bq.elems[0] are steps of their own.

\* bq.lock.RLock() and the test bq.isEmpty(), blocking.go 186-191.
Peek(p) ==
    /\ UNCHANGED variants
    /\ CanCall(p)
    /\ Called("Peek")
    /\ IF isEmpty(elems)
       THEN /\ last' = Event("Peek", ZeroVal, "return", FALSE, ZeroVal,
                             "ErrNoElementsAvailable", <<>>)
            /\ UNCHANGED <<readers, pc>>
       ELSE /\ readers' = readers \cup {p}
            /\ pc' = [pc EXCEPT ![p] = "Peek.elem"]
            /\ UNCHANGED last
    /\ UNCHANGED <<elems, initialElems, capacity, notEmptyCond, notFullCond, local,
                   iteratorCh, panicked, offered, got>>

\* return bq.elems[0], nil, blocking.go 193.
PeekElem(p) ==
    /\ UNCHANGED variants
    /\ panicked = "" /\ pc[p] = "Peek.elem"
    /\ IF Len(elems) = 0
       THEN panicked' = "Peek" /\ UNCHANGED <<readers, pc, last>>
       ELSE /\ last' = Event("Peek", ZeroVal, "return", FALSE, Head(elems), "nil", <<>>)
            /\ readers' = readers \ {p}
            /\ pc' = [pc EXCEPT ![p] = "idle"]
            /\ UNCHANGED panicked
    /\ UNCHANGED <<elems, initialElems, capacity, notEmptyCond, notFullCond, local,
                   iteratorCh, calls, offered, got>>

\* Contains(elem), blocking.go 224-235: under the read lock.  `range bq.elems`
\* takes the slice once, and nothing writes the elements it spans while the
\* read lock is held (an Iterator only moves the start of bq.elems).
Contains(p, e) ==
    /\ UNCHANGED variants
    /\ CanCall(p)
    /\ Called("Contains")
    /\ last' = Event("Contains", e, "return", FALSE, \E i \in DOMAIN elems : elems[i] = e,
                     "nil", <<>>)
    /\ UNCHANGED <<elems, initialElems, capacity, notEmptyCond, notFullCond, readers, pc,
                   local, iteratorCh, panicked, offered, got>>

----------------------------------------------------------------------------
\* The four queues side by side: a behaviour builds one of them and drives it
\* with all its methods.

\* The queue of this behaviour is the Blocking one.
BlockingBuilt == ~circular.built /\ ~priority.built /\ ~linked.built /\ ~backing.built

\* The methods of the Blocking queue but OfferWait and PeekWait.
BlockingNext ==
    /\ BlockingBuilt
    /\ \/ \E p \in Procs, e \in Elems : Offer(p, e)
       \/ \E p \in Procs : Reset(p)
       \/ \E p \in Procs : Get(p)
       \/ \E p \in Procs : GetWait(p)
       \/ \E p \in Procs : GetWaitResume(p)
       \/ \E p \in Procs : Clear(p)
       \/ \E p \in Procs : Peek(p)
       \/ \E p \in Procs : PeekElem(p)
       \/ \E p \in Procs, e \in Elems : Contains(p, e)
       \/ \E p \in Procs : Iterator(p)
       \/ \E p \in Procs : IteratorIsEmpty(p)
       \/ \E p \in Procs : IteratorElem(p)
       \/ \E p \in Procs : IteratorLoad(p)
       \/ \E p \in Procs : IteratorStore(p)
       \/ \E p \in Procs : IteratorSend(p)

QueuesInit == Init \/ CircularInit \/ PriorityInit \/ LinkedInit

QueuesNext == BlockingNext \/ CircularNext \/ PriorityNext \/ LinkedNext

SpecQueues == QueuesInit /\ [][QueuesNext]_vars


----------------------------------------------------------------------------
\* The queue of this behaviour holds no element: its size is 0.
QueueIsEmpty ==
    \/ BlockingBuilt /\ Len(elems) = 0
    \/ circular.built /\ circular.size = 0
    \/ priority.built /\ Len(priority.elements.elems) = 0
    \/ linked.built /\ linked.size = 0

\* C21: on each of the four queues a Get or a Peek called while the size is 0
\* returns, in the step of the call, the zero value and
\* ErrNoElementsAvailable, suspends nobody and leaves the queue as it was:
\* elements, snapshot, capacity, head, tail and size, the nodes, and the
\* goroutines suspended on the conditions.
GetAndPeekFailOnEmpty ==
    [][(/\ QueueIsEmpty /\ panicked = ""
        /\ \/ calls'["Get"] = calls["Get"] + 1
           \/ calls'["Peek"] = calls["Peek"] + 1)
       => /\ panicked' = ""
          /\ last'.op \in {"Get", "Peek"} /\ calls'[last'.op] = calls[last'.op] + 1
          /\ last'.kind = "return"
          /\ last'.err = "ErrNoElementsAvailable" /\ last'.ret = ZeroVal
          /\ pc' = pc /\ readers' = readers
          /\ UNCHANGED <<elems, initialElems, capacity, notEmptyCond, notFullCond,
                         circular, priority, linked>>]_vars

\* A Get has failed on a Circular queue that Gets had emptied, with head and
\* tail away from slot 0.
GetFailedOnEmptiedRing ==
    /\ circular.built /\ panicked = ""
    /\ last.op = "Get" /\ last.err = "ErrNoElementsAvailable"
    /\ circular.size = 0 /\ circular.head # 0 /\ circular.tail = circular.head
    /\ calls["Get"] >= 2


----------------------------------------------------------------------------
\* x is one of the elements in the queue of this behaviour.
QueueHolds(x) ==
    \/ BlockingBuilt /\ \E i \in DOMAIN elems : elems[i] = x
    \/ priority.built /\ \E i \in DOMAIN priority.elements.elems :
                            priority.elements.elems[i] = x
    \/ linked.built /\ \E i \in DOMAIN LinkedLive : LinkedLive[i] = x

\* This step is the return of a Contains.
ContainsReturned ==
    /\ last'.op = "Contains" /\ last'.kind = "return"
    /\ \/ calls'["Contains"] = calls["Contains"] + 1 /\ pc' = pc
       \/ \E p \in Procs : pc[p] = "Contains.elem" /\ pc'[p] = "idle"

\* C31: on a Blocking, Linked or Priority queue a Contains(x) that returns
\* tells whether x is one of the elements in the queue at that moment, and no
\* Contains ends in a panic: true while x has not been removed, false once it
\* has.
ContainsTellsLive ==
    [][~circular.built =>
          /\ panicked' # "Contains"
          /\ ContainsReturned => (last'.ret = QueueHolds(last'.arg))]_vars


----------------------------------------------------------------------------
\* Size() of the queue of this behaviour, and the element its next Get would
\* return (where it holds one).
QueueSize ==
    IF circular.built THEN circular.size
    ELSE IF priority.built THEN Len(priority.elements.elems)
    ELSE IF linked.built THEN linked.size
    ELSE Len(elems)

QueueHead ==
    IF circular.built THEN circular.elems[circular.head + 1]
    ELSE IF priority.built THEN heapPop(priority.elements).v
    ELSE IF linked.built THEN linked.nodes[linked.head].value
    ELSE Head(elems)

\* This step is the return of a Peek.
PeekReturned ==
    /\ last'.op = "Peek" /\ last'.kind = "return"
    /\ \/ calls'["Peek"] = calls["Peek"] + 1 /\ pc' = pc
       \/ \E p \in Procs : pc[p] = "Peek.elem" /\ pc'[p] = "idle"

\* C32: on each of the four queues no Peek ends in a panic, and a Peek that
\* returns from a queue that holds elements returns, with a nil error, the
\* element the next Get would return, and leaves the queue as it was:
\* elements, snapshot, capacity, head, tail, size and nodes.
PeekReturnsNextGet ==
    [][/\ panicked' # "Peek"
       /\ (PeekReturned /\ QueueSize > 0)
          => /\ last'.err = "nil"
             /\ last'.ret = QueueHead
             /\ UNCHANGED <<elems, initialElems, capacity, circular, priority, linked>>]_vars


----------------------------------------------------------------------------
\* This step is goroutine p going through the loop of op, GetWait or PeekWait:
\* at the call, or after a wake-up.
WaitStep(p, op) ==
    \/ /\ calls'[op] = calls[op] + 1
       /\ Idle(p) /\ \A q \in Procs : Idle(q) => p <= q
    \/ /\ pc[p] = op /\ Woken(p)
       /\ (pc'[p] = "idle" \/ p \in notEmptyCond' \/ panicked' = op)

\* C33: PeekWait is suspended on notEmptyCond exactly when GetWait would be,
\* when the queue is empty as it takes the lock (at the call or after a
\* wake-up); otherwise it returns the head element; and in neither case does
\* it change the elements, the snapshot, the capacity or the goroutines
\* suspended on notFullCond: the elements as it returns are those it read
\* the head of.
PeekWaitBlocksAndKeeps ==
    [][\A p \in Procs :
         /\ WaitStep(p, "PeekWait")
              => /\ panicked' = ""
                 /\ UNCHANGED <<elems, initialElems, capacity, notFullCond, got>>
                 /\ last'.op = "PeekWait"
                 /\ IF Len(elems) = 0
                    THEN /\ last'.kind \in {"block", "rewait"}
                         /\ p \in notEmptyCond' /\ pc'[p] = "PeekWait"
                    ELSE /\ last'.kind = "return" /\ last'.ret = Head(elems')
                         /\ pc'[p] = "idle" /\ p \notin notEmptyCond'
         /\ WaitStep(p, "GetWait")
              => (p \in notEmptyCond' <=> Len(elems) = 0)]_vars

\* A PeekWait that had been suspended on an empty queue has returned the
\* element offered since, and the element is still at the head.
PeekWaitReturnedAfterWaiting ==
    /\ BlockingBuilt /\ panicked = ""
    /\ last.op = "PeekWait" /\ last.kind = "return" /\ last.woken
    /\ Len(elems) >= 1 /\ last.ret = Head(elems)
    /\ Len(offered) >= 1 /\ last.ret = offered[Len(offered)]


----------------------------------------------------------------------------
\* Callers suspended together in PeekWait and GetWait on an empty queue, then
\* one insertion: the queue is first drained with Get, then callers enter
\* GetWait and PeekWait and are suspended, and then one element is inserted.

WaitersDrain(p) == calls["GetWait"] + calls["PeekWait"] = 0 /\ elems # <<>> /\ Get(p)

WaitersNotYetInserted == calls["Offer"] + calls["OfferWait"] = 0

WaitersGetWait(p) == elems = <<>> /\ WaitersNotYetInserted /\ GetWait(p)

WaitersPeekWait(p) == elems = <<>> /\ WaitersNotYetInserted /\ PeekWait(p)

WaitersOffer(p, e) ==
    /\ calls["GetWait"] + calls["PeekWait"] > 0 /\ WaitersNotYetInserted
    /\ Offer(p, e)

WaitersOfferWait(p, e) ==
    /\ calls["GetWait"] + calls["PeekWait"] > 0 /\ WaitersNotYetInserted
    /\ OfferWait(p, e)

WaitersNext ==
    \/ \E p \in Procs : WaitersDrain(p)
    \/ \E p \in Procs : WaitersGetWait(p)
    \/ \E p \in Procs : WaitersPeekWait(p)
    \/ \E p \in Procs, e \in Elems : WaitersOffer(p, e)
    \/ \E p \in Procs, e \in Elems : WaitersOfferWait(p, e)
    \/ \E p \in Procs : GetWaitResume(p)
    \/ \E p \in Procs : PeekWaitResume(p)

\* A goroutine woken from Cond.Wait is runnable and the lock is free of
\* readers: it re-acquires the lock in the end.
WaitersFairness ==
    \A p \in Procs : WF_vars(GetWaitResume(p)) /\ WF_vars(PeekWaitResume(p))

SpecWaiters == Init /\ [][WaitersNext]_vars /\ WaitersFairness

\* A caller of GetWait is suspended / some caller woken from notEmptyCond is
\* on its way.
GetWaitSuspended == \E p \in Procs : pc[p] = "GetWait" /\ p \in notEmptyCond
WaiterWoken == \E p \in Procs : pc[p] \in {"GetWait", "PeekWait"} /\ Woken(p)

\* C34: with callers suspended in PeekWait and GetWait on an empty queue and
\* one element inserted: a woken PeekWait caller that finds the element
\* returns it, leaves it in the queue and wakes one of the callers still
\* suspended; while the element is in the queue and a GetWait caller is
\* suspended, a woken caller is on its way; and if a GetWait caller was
\* waiting, in the end exactly one GetWait caller has removed the element.
WakeUpNotLost ==
    /\ [][\A p \in Procs :
            (WaitStep(p, "PeekWait") /\ pc[p] = "PeekWait" /\ elems # <<>>)
              => /\ last'.op = "PeekWait" /\ last'.kind = "return"
                 /\ last'.ret = offered[1] /\ elems' = elems
                 /\ notEmptyCond # {} =>
                      Cardinality(notEmptyCond') = Cardinality(notEmptyCond) - 1]_vars
    /\ []((elems # <<>> /\ GetWaitSuspended) => WaiterWoken)
    /\ ((Len(offered) = 1 /\ calls["GetWait"] > 0)
          ~> (elems = <<>> /\ Waited = offered /\ ~WaiterWoken))

\* The insertion woke the PeekWait caller, which returned the element and
\* woke the GetWait caller, which removed it: both callers had been
\* suspended, and both have returned.
PeekWaitPassedSignalOn ==
    /\ BlockingBuilt /\ panicked = ""
    /\ calls["PeekWait"] = 1 /\ calls["GetWait"] = 1 /\ Len(offered) = 1
    /\ \A p \in Procs : pc[p] = "idle"
    /\ last.op = "GetWait" /\ last.kind = "return" /\ last.woken
    /\ last.ret = offered[1] /\ elems = <<>>


----------------------------------------------------------------------------
\* More callers of GetWait than the snapshot has elements, and a Reset each
\* time the queue is drained while callers wait: the queue is built on a
\* non-empty slice, up to MaxWaiters calls of GetWait are made, one goroutine
\* staying free to call Reset.

\* The calls of a behaviour: each GetWait, and at most one Reset for each.
MaxRefillOps == MaxWaiters + MaxWaiters

RefillGetWait(p) ==
    /\ calls["GetWait"] < MaxWaiters
    /\ \E q \in Procs \ {p} : Idle(q)
    /\ GetWaitWithin(p, MaxRefillOps)

RefillReset(p) ==
    /\ elems = <<>>
    /\ \E q \in Procs : pc[q] = "GetWait"
    /\ ResetWithin(p, MaxRefillOps)

RefillInit == Init /\ initialElems # <<>>

RefillNext ==
    \/ \E p \in Procs : RefillGetWait(p)
    \/ \E p \in Procs : RefillReset(p)
    \/ \E p \in Procs : GetWaitResume(p)

\* A woken goroutine re-acquires the lock in the end, and the Reset is
\* repeated whenever the queue is drained while callers wait.
RefillFairness ==
    /\ \A p \in Procs : WF_vars(GetWaitResume(p))
    /\ WF_vars(\E p \in Procs : RefillReset(p))

SpecRefill == RefillInit /\ [][RefillNext]_vars /\ RefillFairness

\* s repeated k times.
RECURSIVE Times(_, _)
Times(s, k) == IF k = 0 THEN <<>> ELSE s \o Times(s, k - 1)

\* C35: with W calls of GetWait on a queue whose snapshot has n >= 1
\* elements and a Reset whenever the queue is drained while callers wait:
\* a Reset restores the n elements and wakes every suspended caller; what
\* the callers have returned, followed by what is in the queue, is the
\* constructed elements followed by the snapshot once per Reset, so each
\* caller returns an element of its own; when no goroutine is on its way the
\* callers that have returned are min(W, elements made available) and the
\* others are suspended again; and in the end no caller is left waiting.
ResetServesWaiters ==
    /\ [](got \o elems = Constructed \o Times(initialElems, calls["Reset"]))
    /\ [](Quiescent =>
            /\ Len(got) = Min(calls["GetWait"],
                              Len(Constructed) + Len(initialElems) * calls["Reset"])
            /\ Cardinality(notEmptyCond) = calls["GetWait"] - Len(got))
    /\ [][calls'["Reset"] = calls["Reset"] + 1
            => elems = <<>> /\ elems' = initialElems /\ notEmptyCond' = {}]_vars
    /\ ((\E p \in Procs : pc[p] = "GetWait") ~> (\A p \in Procs : pc[p] # "GetWait"))

\* Three callers on a queue with a snapshot of one element have all
\* returned, the last two after a Reset each.
ThreeWaitersServedByResets ==
    /\ BlockingBuilt /\ panicked = ""
    /\ Len(initialElems) = 1 /\ Len(Constructed) = 1
    /\ calls["GetWait"] = MaxWaiters /\ calls["Reset"] = 2
    /\ Len(got) = MaxWaiters /\ \A p \in Procs : pc[p] = "idle"
    /\ last.op = "GetWait" /\ last.kind = "return" /\ last.woken

----------------------------------------------------------------------------
\* Offer on a full Circular queue whose head is at slot 0.

\* This step is a call of Offer on a ring of one or more slots that holds as
\* many elements as it has slots, or more after a Reset, with head at slot 0
\* and no Iterator on its way.
CircularOfferOnFullAtHeadZero ==
    /\ circular.built /\ panicked = "" /\ readers = {}
    /\ calls'["Offer"] = calls["Offer"] + 1
    /\ Len(circular.elems) >= 1 /\ circular.size >= Len(circular.elems)
    /\ circular.head = 0

\* The element a Get or a Peek in the state this step leaves would return.
CircularNextHead == circular'.elems[circular'.head + 1]

\* C36: on a full Circular queue whose head index is 0, Offer writes the
\* element into the slot at tail, leaves head where it is, and the next
\* Peek or Get returns the element just offered.
CircularOfferedIsNext ==
    [][CircularOfferOnFullAtHeadZero
       => /\ panicked' = "" /\ last'.err = "nil"
          /\ circular'.head = circular.head
          /\ circular'.elems = [circular.elems EXCEPT ![circular.tail + 1] = last'.arg]
          /\ CircularNextHead = last'.arg]_vars

\* C36, amended: on a full Circular queue of one or more slots whose head
\* index is 0, Offer returns nil, writes the element into the slot at tail
\* and moves tail on by one slot; head, size and the other slots stay.  The
\* next Peek or Get returns the element just offered where tail was 0 as
\* well, and the element that was at the head before where tail was not 0.
CircularOfferWritesAtTail ==
    [][CircularOfferOnFullAtHeadZero
       => /\ panicked' = "" /\ last'.err = "nil"
          /\ circular'.head = circular.head
          /\ circular'.size = circular.size
          /\ circular'.tail = (circular.tail + 1) % Len(circular.elems)
          /\ circular'.elems = [circular.elems EXCEPT ![circular.tail + 1] = last'.arg]
          /\ CircularNextHead = IF circular.tail = 0
                                THEN last'.arg
                                ELSE circular.elems[circular.head + 1]]_vars

\* A ring built full of two elements has taken two Offers and nothing else:
\* the first replaced the element at the head, the second the one behind
\* it, and the first offered element is still the next one.
CircularTwoOverwrites ==
    /\ circular.built /\ panicked = ""
    /\ last.op = "Offer" /\ calls["Offer"] = 2 /\ TotalCalls = 2
    /\ Len(circular.elems) = 2 /\ circular.size = 2
    /\ circular.head = 0 /\ circular.tail = 0
    /\ circular.elems[2] = last.arg /\ circular.elems[1] # last.arg

----------------------------------------------------------------------------
\* The indexes of the Circular queue.

\* How far tail is ahead of the slot after the last live element,
\* (head + size) mod capacity, on a ring of one or more slots.
CircularIndexGap(q) == (q.tail - q.head - q.size) % Len(q.elems)

CircularIteratorOvertaken ==
    /\ calls' = calls
    /\ circular'.head # (circular.head + 1) % Len(circular.elems)

----------------------------------------------------------------------------
\* Offers and Gets on the Circular queue.

\* C38: after Offers and Gets alone on a Circular queue, an Offer while
\* size < capacity overwrites no live element: the live elements it leaves
\* are the former ones, in their order, followed by the offered one, so that
\* every one of them is still returned by Get, once.
CircularOfferSparesLive ==
    [][(/\ CircularReturned("Offer")
        /\ Used \subseteq {"Offer", "Get"}
        /\ circular.size < Len(circular.elems))
       => circularDrain(circular') = Append(CircularLive, last'.arg)]_vars

----------------------------------------------------------------------------
\* The goroutine that Linked.Iterator starts.

\* Iterator(), linked.go 308-322, with its go statement: ch is made without
\* a buffer, Clear() empties the queue under the lock, and a new goroutine g
\* is started with the elements Clear() returned; Iterator returns ch at
\* once.  local[g].live is what g has yet to send, iteratorCh[g] what has been
\* received from ch.
LinkedIteratorGo(p, g) ==
    /\ LinkedCall(p, "Iterator") /\ CanLock
    /\ g # p /\ Idle(g) /\ \A q \in Procs \ {p} : Idle(q) => g <= q
    /\ linked' = [linked EXCEPT !.head = Nil, !.tail = Nil, !.size = 0]
    /\ last' = Event("Iterator", ZeroVal, "return", FALSE, ZeroVal, "nil", <<>>)
    /\ pc' = [pc EXCEPT ![g] = "Iterator.go"]
    /\ local' = [local EXCEPT ![g].live = linkedElements(linked)]
    /\ iteratorCh' = [iteratorCh EXCEPT ![g] = <<>>]
    /\ UNCHANGED <<panicked, readers, blocking, circular, priority, backing>>

\* ch <- e, linked.go 314-316: the send on the unbuffered channel goes
\* through only together with a receive by whoever holds the channel.
LinkedIteratorReceive(g) ==
    /\ linked.built /\ panicked = "" /\ pc[g] = "Iterator.go"
    /\ local[g].live # <<>>
    /\ iteratorCh' = [iteratorCh EXCEPT ![g] = Append(@, Head(local[g].live))]
    /\ local' = [local EXCEPT ![g].live = Tail(@)]
    /\ UNCHANGED <<linked, last, pc, calls, panicked, readers, blocking, circular,
                   priority, backing>>

\* close(ch), linked.go 318, after the last send: the goroutine ends.
LinkedIteratorClose(g) ==
    /\ linked.built /\ panicked = "" /\ pc[g] = "Iterator.go"
    /\ local[g].live = <<>>
    /\ pc' = [pc EXCEPT ![g] = "idle"]
    /\ iteratorCh' = [iteratorCh EXCEPT ![g] = <<>>]
    /\ UNCHANGED <<linked, last, local, calls, panicked, readers, blocking, circular,
                   priority, backing>>

\* The Linked queue with the goroutines of its Iterators: the caller of
\* Iterator may receive from the channel or leave it alone.
LinkedGoNext ==
    \/ \E p \in Procs, value \in Elems : LinkedOffer(p, value)
    \/ \E p \in Procs : LinkedGet(p)
    \/ \E p \in Procs : LinkedReset(p)
    \/ \E p \in Procs : LinkedClear(p)
    \/ \E p \in Procs, g \in Procs : LinkedIteratorGo(p, g)
    \/ \E g \in Procs : LinkedIteratorReceive(g)
    \/ \E g \in Procs : LinkedIteratorClose(g)

SpecLinkedGo == LinkedInit /\ [][LinkedGoNext]_vars

\* C39: when Offer, Get, Clear, Reset or Iterator of a Linked queue returns,
\* no goroutine that the call started is still running or blocked.
LinkedLeavesNothingBehind ==
    [][(linked.built /\ \E op \in {"Offer", "Get", "Clear", "Reset", "Iterator"} :
                           calls'[op] = calls[op] + 1)
       => \A g \in Procs : pc[g] = "idle" => pc'[g] = "idle"]_vars

====
